---- MODULE Spec2Model ----
(***************************************************************************)
(* A model of the "can" content-addressed object store: the canonical      *)
(* codec (format.go), the directory repository DirRepo (format.go), the    *)
(* Tree type, and the Sugar key-value layer (sugar.go, and its later       *)
(* revision with Keys).                                                    *)
(*                                                                         *)
(* A byte stream is a sequence of one-character strings.  SHA-1 is         *)
(* modelled as an injective function: the hex digits of a digest are the   *)
(* bytes of the hashed stream, each marked with "#", followed by an end    *)
(* mark, so that two streams have the same digest iff they are equal and   *)
(* a digest digit is never a delimiter of the encoding.                    *)
(***************************************************************************)
EXTENDS Integers, Sequences, FiniteSets, TLC

(***************************************************************************)
(* Characters, byte-wise order, decimal numbers                            *)
(***************************************************************************)

\* The plain characters of the model, in ascending byte order.
Alphabet ==
  << "\n", " ", "+", "-", "0", "1", "2", "3", "4", "5", "6", "7", "8", "9",
     "A", "B", "C", "D", "E", "F",
     "a", "b", "c", "d", "e", "f", "g", "h", "i", "k", "l", "m", "n", "o",
     "p", "r", "t", "x", "y", "z" >>

CharCode(c) == CHOOSE i \in 1..Len(Alphabet) : Alphabet[i] = c

DigitChars == << "0", "1", "2", "3", "4", "5", "6", "7", "8", "9" >>

IsDigit(c) == \E i \in 1..10 : DigitChars[i] = c

DigitVal(c) == (CHOOSE i \in 1..10 : DigitChars[i] = c) - 1

\* Go's string comparison a < b: byte-wise, a proper prefix is smaller.
RECURSIVE StrLess(_, _)
StrLess(a, b) ==
  IF b = << >> THEN FALSE
  ELSE IF a = << >> THEN TRUE
  ELSE IF a[1] = b[1] THEN StrLess(Tail(a), Tail(b))
  ELSE CharCode(a[1]) < CharCode(b[1])

\* fmt's %d of a non-negative number.
RECURSIVE FormatNat(_)
FormatNat(n) ==
  IF n < 10 THEN << DigitChars[n + 1] >>
  ELSE FormatNat(n \div 10) \o << DigitChars[(n % 10) + 1] >>

\* fmt's %d.
FormatInt(n) == IF n < 0 THEN << "-" >> \o FormatNat(0 - n) ELSE FormatNat(n)

\* fmt's %+d: the sign is always printed.
FormatSigned(n) == IF n < 0 THEN << "-" >> \o FormatNat(0 - n) ELSE << "+" >> \o FormatNat(n)

RECURSIVE DigitsVal(_, _)
DigitsVal(s, acc) ==
  IF s = << >> THEN acc ELSE DigitsVal(Tail(s), acc * 10 + DigitVal(s[1]))

\* strconv.ParseInt(s, 10, 64): an optional sign, then one digit or more.
ParseInt(s) ==
  LET signed == s # << >> /\ s[1] \in {"+", "-"}
      digits == IF signed THEN Tail(s) ELSE s
  IN IF digits = << >> \/ \E i \in 1..Len(digits) : ~IsDigit(digits[i])
       THEN [err |-> "syntax", val |-> 0]
       ELSE [err |-> "",
             val |-> IF signed /\ s[1] = "-" THEN 0 - DigitsVal(digits, 0)
                     ELSE DigitsVal(digits, 0)]

\* The first index i in lo..hi with data[i] = ch, or 0 when there is none
\* (searched by halves, to keep the evaluation shallow).
RECURSIVE IndexIn(_, _, _, _)
IndexIn(data, ch, lo, hi) ==
  IF lo > hi THEN 0
  ELSE IF lo = hi THEN (IF data[lo] = ch THEN lo ELSE 0)
  ELSE LET mid == (lo + hi) \div 2
           left == IndexIn(data, ch, lo, mid)
       IN IF left > 0 THEN left ELSE IndexIn(data, ch, mid + 1, hi)

\* The first index i >= from with data[i] = ch, or 0 when there is none.
IndexOf(data, ch, from) == IndexIn(data, ch, from, Len(data))

(***************************************************************************)
(* Identifiers                                                             *)
(***************************************************************************)

\* The nil ID (a nil byte slice).
NilID == << >>

\* The plain characters that are not hexadecimal digits.
NonHexChars ==
  { "\n", " ", "+", "-", "g", "h", "i", "k", "l", "m", "n", "o", "p", "r",
    "t", "x", "y", "z" }

\* A digit test that knows the lower-case digits only.
IsHexDigitLower(c) == c \notin NonHexChars \cup { "A", "B", "C", "D", "E", "F" }

\* encoding/hex accepts a digit in either case; digest digits are hex digits.
IsHexDigit(c) == c \notin NonHexChars

\* The value of a hex digit, written as its lower-case digit.
Nibble(c) ==
  CASE c = "A" -> "a" [] c = "B" -> "b" [] c = "C" -> "c"
    [] c = "D" -> "d" [] c = "E" -> "e" [] c = "F" -> "f" [] OTHER -> c

\* ID.String: two lower-case hex digits per byte.  A byte of an ID is the
\* pair of its digits.
IDString(id) ==
  [i \in 1..(2 * Len(id)) |-> id[(i + 1) \div 2][IF i % 2 = 1 THEN 1 ELSE 2]]

\* A ParseID that takes the empty string for a malformed ID.
ParseIDNoNil(s) ==
  IF Len(s) % 2 = 1 \/ s = << >> \/ \E i \in 1..Len(s) : ~IsHexDigit(s[i])
    THEN [err |-> "bad id", id |-> NilID]
  ELSE [err |-> "",
        id |-> [i \in 1..(Len(s) \div 2) |-> << Nibble(s[2 * i - 1]), Nibble(s[2 * i]) >>]]

\* ParseID: the empty string is the nil ID; hex.DecodeString rejects an odd
\* length and a character that is no hex digit.
ParseID(s) ==
  IF s = << >> THEN [err |-> "", id |-> NilID]
  ELSE IF Len(s) % 2 = 1 \/ \E i \in 1..Len(s) : ~IsHexDigit(s[i])
    THEN [err |-> "bad id", id |-> NilID]
  ELSE [err |-> "",
        id |-> [i \in 1..(Len(s) \div 2) |-> << Nibble(s[2 * i - 1]), Nibble(s[2 * i]) >>]]

\* ID.Equal: bytes.Compare(id, other) == 0.
IDEqual(a, b) == a = b

\* sha1 over a byte stream, as an injective function (see the head of the
\* module): the digits are the marked bytes, an end mark, and one more mark
\* when that leaves an odd number of digits.
IDOfBytes(bytes) ==
  LET marked == [i \in 1..Len(bytes) |-> "#" \o bytes[i]] \o << "#" >>
      digits == IF Len(marked) % 2 = 1 THEN marked \o << "#" >> ELSE marked
  IN [i \in 1..(Len(digits) \div 2) |-> << digits[2 * i - 1], digits[2 * i] >>]

(***************************************************************************)
(* Objects: Tree, Entry, Commit                                            *)
(***************************************************************************)

KindBlob == << "b", "l", "o", "b" >>
KindTree == << "t", "r", "e", "e" >>
KindCommit == << "c", "o", "m", "m", "i", "t" >>

\* An Entry is [Kind, Name, ID]; a Tree is a sequence of entries, nil = << >>.
Entry(kind, name, id) == [Kind |-> kind, Name |-> name, ID |-> id]

\* An Equal that does not look at the IDs.
EntryEqualButID(a, b) == a.Kind = b.Kind /\ a.Name = b.Name

\* Entry.Equal.
EntryEqual(e, other) ==
  e.Kind = other.Kind /\ e.Name = other.Name /\ IDEqual(e.ID, other.ID)

\* sort.Search(n, f) with f(h) = t[h].Name >= name, on 0-based indices.
RECURSIVE TreeSearch(_, _, _, _)
TreeSearch(t, name, i, j) ==
  IF i < j
    THEN LET h == (i + j) \div 2
         IN IF StrLess(t[h + 1].Name, name)
              THEN TreeSearch(t, name, h + 1, j)
              ELSE TreeSearch(t, name, i, h)
    ELSE i

\* Tree.index: the 0-based index of the entry called name, or -1.
TreeIndex(t, name) ==
  LET At(i) == IF i < Len(t) /\ t[i + 1].Name = name THEN i ELSE -1
  IN At(TreeSearch(t, name, 0, Len(t)))

\* Tree.Get: [found, entry].
TreeGet(t, name) ==
  LET At(i) == IF i >= 0 THEN [found |-> TRUE, entry |-> t[i + 1]]
               ELSE [found |-> FALSE, entry |-> Entry(<< >>, << >>, NilID)]
  IN At(TreeIndex(t, name))

\* An Add that appends the entry even when the name is there already.
TreeAddAppend(t, entry) == Append(t, entry)

\* A tree that keeps nothing but the entry added.
TreeAddAlone(t, entry) == << entry >>

\* Tree.Add: replace the entry with that name, or append.
TreeAdd(t, entry) ==
  LET At(i) == IF i >= 0 THEN [t EXCEPT ![i + 1] = entry] ELSE Append(t, entry)
  IN At(TreeIndex(t, entry.Name))

\* A sort that leaves the entries where they are.
InsertEntryAtEnd(sorted, e) == Append(sorted, e)

\* sort.Sort(t) with Less = (t[i].Name < t[j].Name); for these lengths Go
\* sorts by insertion, which keeps entries of equal name in their order.
RECURSIVE InsertEntry(_, _)
InsertEntry(sorted, e) ==
  IF sorted = << >> THEN << e >>
  ELSE IF StrLess(e.Name, sorted[Len(sorted)].Name)
    THEN Append(InsertEntry(SubSeq(sorted, 1, Len(sorted) - 1), e), sorted[Len(sorted)])
  ELSE Append(sorted, e)

RECURSIVE SortTree(_)
SortTree(t) ==
  IF t = << >> THEN << >>
  ELSE InsertEntry(SortTree(SubSeq(t, 1, Len(t) - 1)), t[Len(t)])

\* A wall-clock time: Unix seconds, nanoseconds within the second, and the
\* zone offset in seconds.  ZeroTimeUnix stands for the Unix seconds of the
\* zero time.Time (-62135596800), scaled down to the model's integers.
ZeroTimeUnix == -62

Time(unix, nsec, off) == [unix |-> unix, nsec |-> nsec, off |-> off]

ZeroTime == Time(ZeroTimeUnix, 0, 0)

\* Time.IsZero: the zero instant, whatever the zone.
TimeIsZero(t) == t.unix = ZeroTimeUnix /\ t.nsec = 0

\* A Commit is [Tree, Parents, Time, Message]; a Message is [isNil, data].
NilMessage == [isNil |-> TRUE, data |-> << >>]

Message(data) == [isNil |-> FALSE, data |-> data]

Commit(tree, parents, time, msg) ==
  [Tree |-> tree, Parents |-> parents, Time |-> time, Message |-> msg]

ZeroCommit == Commit(NilID, << >>, ZeroTime, NilMessage)

(***************************************************************************)
(* The canonical codec (defaultFormat)                                     *)
(***************************************************************************)

blobPrefix == << "b", "l", "o", "b", "\n" >>
treePrefix == << "t", "r", "e", "e", "\n" >>
commitPrefix == << "c", "o", "m", "m", "i", "t", "\n" >>

\* A reader is [data, term]: the bytes it yields and how it ends, "eof" or
\* the error the underlying reader returns in place of io.EOF.
Reader(data, term) == [data |-> data, term |-> term]

\* EncodeBlob: the prefix, then the value.
EncodeBlob(value) == blobPrefix \o value

\* ioutil.ReadAll(io.LimitReader(r, n)): [data, err]; the end of the
\* underlying reader is met only when it holds fewer than n bytes.
ReadLimited(r, pos, n) ==
  LET have == Len(r.data) - pos + 1
  IN IF n <= 0 THEN [data |-> << >>, err |-> ""]
     ELSE IF have >= n THEN [data |-> SubSeq(r.data, pos, pos + n - 1), err |-> ""]
     ELSE [data |-> SubSeq(r.data, pos, Len(r.data)),
           err |-> IF r.term = "eof" THEN "" ELSE r.term]

\* A DecodeBlob that skips the prefix without comparing it.
DecodeBlobAnyPrefix(r) ==
  [err |-> "", r |-> Reader(SubSeq(r.data, Len(blobPrefix) + 1, Len(r.data)), r.term)]

\* DecodeBlob: [err, r]; r reads the value.
DecodeBlob(r) ==
  LET Check(p) ==
        IF p.err # "" THEN [err |-> p.err, r |-> Reader(<< >>, "eof")]
        ELSE IF p.data # blobPrefix
          THEN [err |-> "bad blob prefix", r |-> Reader(<< >>, "eof")]
        ELSE [err |-> "",
              r |-> Reader(SubSeq(r.data, Len(blobPrefix) + 1, Len(r.data)), r.term)]
  IN Check(ReadLimited(r, 1, Len(blobPrefix)))

\* One line of EncodeTree: "%s %s %d %s\n" of Kind, ID, len(Name), Name.
EncodeEntry(e) ==
  e.Kind \o << " " >> \o IDString(e.ID) \o << " " >> \o FormatInt(Len(e.Name))
    \o << " " >> \o e.Name \o << "\n" >>

RECURSIVE EncodeEntries(_)
EncodeEntries(t) ==
  IF t = << >> THEN << >> ELSE EncodeEntry(t[1]) \o EncodeEntries(Tail(t))

\* An encoder that writes the entries in the order it finds them.
EncodeTreeUnsorted(t) == treePrefix \o EncodeEntries(t)

\* EncodeTree: the prefix, then the entries sorted by name.
EncodeTree(t) == treePrefix \o EncodeEntries(SortTree(t))

\* bufio's ReadString(delim) from pos: [data, err, next]; data ends with the
\* delimiter unless err is set, and then holds what was read before the end.
ReadString(r, pos, delim) ==
  LET At(i) ==
        IF i > 0 THEN [data |-> SubSeq(r.data, pos, i), err |-> "", next |-> i + 1]
        ELSE [data |-> SubSeq(r.data, pos, Len(r.data)), err |-> r.term,
              next |-> Len(r.data) + 1]
  IN At(IndexOf(r.data, delim, pos))

DropLast(s) == SubSeq(s, 1, Len(s) - 1)

\* The entry loop of DecodeTree, from pos with the entries read so far.
RECURSIVE DecodeEntries(_, _, _)
DecodeEntries(r, pos, tree) ==
  LET fail(e) == [err |-> e, tree |-> << >>]
      GotName(kind, pid, next, name) ==
        IF name.err # "" THEN fail(name.err)
        ELSE IF name.data = << >> THEN fail("panic")
        ELSE DecodeEntries(r, next + Len(name.data),
               Append(tree, Entry(DropLast(kind.data), DropLast(name.data), pid.id)))
      GotLen(kind, pid, len, plen) ==
        IF plen.err # "" THEN fail(plen.err)
        ELSE GotName(kind, pid, len.next, ReadLimited(r, len.next, plen.val + 1))
      GotLenText(kind, pid, len) ==
        IF len.err # "" THEN fail(len.err)
        ELSE GotLen(kind, pid, len, ParseInt(DropLast(len.data)))
      GotID(kind, id, pid) ==
        IF pid.err # "" THEN fail(pid.err)
        ELSE GotLenText(kind, pid, ReadString(r, id.next, " "))
      GotIDText(kind, id) ==
        IF id.err # "" THEN fail(id.err)
        ELSE GotID(kind, id, ParseID(DropLast(id.data)))
      GotKind(kind) ==
        IF kind.err = "eof" /\ kind.data = << >> THEN [err |-> "", tree |-> tree]
        ELSE IF kind.err # "" THEN fail(kind.err)
        ELSE GotIDText(kind, ReadString(r, kind.next, " "))
  IN GotKind(ReadString(r, pos, " "))

\* DecodeTree: [err, tree].  An error while reading the prefix is dropped
\* and the prefix is then not compared.
DecodeTree(r) ==
  LET Check(p) ==
        IF p.err = "" /\ p.data # treePrefix
          THEN [err |-> "bad tree prefix", tree |-> << >>]
          ELSE DecodeEntries(r, Len(p.data) + 1, << >>)
  IN Check(ReadLimited(r, 1, Len(treePrefix)))

\* The lines "parent <hex>\n" of EncodeCommit, in the order of Parents.
RECURSIVE EncodeParents(_)
EncodeParents(ps) ==
  IF ps = << >> THEN << >>
  ELSE << "p", "a", "r", "e", "n", "t", " " >> \o IDString(ps[1]) \o << "\n" >>
         \o EncodeParents(Tail(ps))

\* EncodeCommit: Time.Unix() drops the nanoseconds; %s of a nil Message
\* prints nothing.
EncodeCommit(c) ==
  commitPrefix
    \o << "t", "r", "e", "e", " " >> \o IDString(c.Tree) \o << "\n" >>
    \o EncodeParents(c.Parents)
    \o << "t", "i", "m", "e", " " >> \o FormatInt(c.Time.unix) \o << " " >>
    \o FormatSigned(c.Time.off) \o << "\n" >>
    \o << "\n" >> \o c.Message.data

\* strings.Split(s, " ").
RECURSIVE SplitSpaces(_)
SplitSpaces(s) ==
  LET i == IndexOf(s, " ", 1)
  IN IF i = 0 THEN << s >>
     ELSE << SubSeq(s, 1, i - 1) >> \o SplitSpaces(SubSeq(s, i + 1, Len(s)))

\* The "time" field: every part must be a number; the first is the Unix
\* time (in the local zone, taken as UTC, until a second part sets the
\* offset), later parts are read and dropped.  [err, time].
RECURSIVE DecodeTimeParts(_, _, _)
DecodeTimeParts(parts, i, t) ==
  LET Got(v) ==
        IF v.err # "" THEN [err |-> "bad time", time |-> t]
        ELSE DecodeTimeParts(parts, i + 1,
               IF i = 1 THEN Time(v.val, 0, 0)
               ELSE IF i = 2 THEN Time(t.unix, t.nsec, v.val)
               ELSE t)
  IN IF i > Len(parts) THEN [err |-> "", time |-> t] ELSE Got(ParseInt(parts[i]))

\* What DecodeCommit does after the fields: a newline, then the message; an
\* empty message stays nil.
DecodeMessage(r, pos, c) ==
  LET fail(e) == [err |-> e, commit |-> c]
  IN IF pos > Len(r.data) THEN fail(r.term)
     ELSE IF r.data[pos] # "\n" THEN fail("bad end of fields")
     ELSE IF r.term # "eof" THEN fail(r.term)
     ELSE [err |-> "",
           commit |-> IF pos < Len(r.data)
                        THEN [c EXCEPT !.Message = Message(SubSeq(r.data, pos + 1, Len(r.data)))]
                        ELSE c]

\* The field loop of DecodeCommit, from pos with the commit read so far.
RECURSIVE DecodeFields(_, _, _)
DecodeFields(r, pos, c) ==
  LET fail(e) == [err |-> e, commit |-> c]
      GotTree(next, pid) ==
        IF pid.err # "" THEN fail(pid.err)
        ELSE DecodeFields(r, next, [c EXCEPT !.Tree = pid.id])
      GotParent(next, pid) ==
        IF pid.err # "" THEN fail(pid.err)
        ELSE DecodeFields(r, next, [c EXCEPT !.Parents = Append(@, pid.id)])
      GotTime(next, tm) ==
        IF tm.err # "" THEN fail(tm.err)
        ELSE DecodeMessage(r, next,
               [c EXCEPT !.Time = IF TimeIsZero(tm.time) THEN ZeroTime ELSE tm.time])
      GotValue(name, v, next) ==
        IF name = << "t", "r", "e", "e" >> THEN GotTree(next, ParseID(v))
        ELSE IF name = << "p", "a", "r", "e", "n", "t" >> THEN GotParent(next, ParseID(v))
        ELSE IF name = << "t", "i", "m", "e" >>
          THEN GotTime(next, DecodeTimeParts(SplitSpaces(v), 1, c.Time))
        ELSE fail("unknown field")
      GotLine(field, val) ==
        IF val.err # "" THEN fail(val.err)
        ELSE GotValue(DropLast(field.data), DropLast(val.data), val.next)
      GotField(field) ==
        IF field.err # "" THEN fail(field.err)
        ELSE GotLine(field, ReadString(r, field.next, "\n"))
  IN GotField(ReadString(r, pos, " "))

\* DecodeCommit: [err, commit].  An error while reading the prefix is
\* dropped and the prefix is then not compared.
DecodeCommit(r) ==
  LET Check(p) ==
        IF p.err = "" /\ p.data # commitPrefix
          THEN [err |-> "bad commit prefix", commit |-> ZeroCommit]
          ELSE DecodeFields(r, Len(p.data) + 1, ZeroCommit)
  IN Check(ReadLimited(r, 1, Len(commitPrefix)))

(***************************************************************************)
(* DirRepo: objects as files under obj/, the head file                     *)
(***************************************************************************)

\* A file that does not exist, and a file holding data.
NoFile == [exists |-> FALSE, data |-> << >>]

File(data) == [exists |-> TRUE, data |-> data]

\* DirRepo.path: obj/<first two hex digits>/<the other digits>, as the pair
\* of directory and file name; s[0:2] aborts on an ID shorter than a byte.
HasPath(id) == Len(IDString(id)) >= 2

ObjPath(id) ==
  LET s == IDString(id) IN << SubSeq(s, 1, 2), SubSeq(s, 3, Len(s)) >>

\* A rename that empties the object directory first.
PutFileAlone(o, p, data) == [q \in {p} |-> data]

\* The object directory o with data stored at path p.
PutFile(o, p, data) ==
  [q \in DOMAIN o \cup {p} |-> IF q = p THEN data ELSE o[q]]

\* idWriter: what went to the file (w) and what went to the hash (h).
NewIDWriter == [w |-> << >>, h |-> << >>]

\* An idWriter that leaves the first byte it is given out of the hash.
IDWriterWriteUnhashedPrefix(iw, p) ==
  [w |-> iw.w \o p, h |-> IF iw.h = << >> THEN Tail(p) ELSE iw.h \o p]

IDWriterWrite(iw, p) == [w |-> iw.w \o p, h |-> iw.h \o p]

IDWriterID(iw) == IDOfBytes(iw.h)

\* idVerifier over the file for id: it hashes what it reads and, where the
\* file ends, returns an error in place of io.EOF unless the hash is id.
NewIDVerifier(data, id) ==
  Reader(data, IF IDEqual(IDOfBytes(data), id) THEN "eof" ELSE "bad id")

\* os.Open(d.path(id)) and NewIDVerifier: [err, r].
OpenObject(o, id) ==
  IF ~HasPath(id) THEN [err |-> "panic", r |-> Reader(<< >>, "eof")]
  ELSE IF ObjPath(id) \notin DOMAIN o THEN [err |-> "not exist", r |-> Reader(<< >>, "eof")]
  ELSE [err |-> "", r |-> NewIDVerifier(o[ObjPath(id)], id)]

\* DirRepo.Blob: [err, r]; r reads the value.
RepoBlob(o, id) ==
  LET Opened(f) == IF f.err # "" THEN f ELSE DecodeBlob(f.r)
  IN Opened(OpenObject(o, id))

\* ioutil.ReadAll of a reader: [err, data].
ReadAll(r) == [err |-> IF r.term = "eof" THEN "" ELSE r.term, data |-> r.data]

\* DirRepo.Tree: [err, tree].
RepoTree(o, id) ==
  LET Decoded(t) == IF t.err # "" THEN [err |-> t.err, tree |-> << >>] ELSE t
      Opened(f) == IF f.err # "" THEN [err |-> f.err, tree |-> << >>]
                   ELSE Decoded(DecodeTree(f.r))
  IN Opened(OpenObject(o, id))

\* DirRepo.Commit: [err, commit].
RepoCommit(o, id) ==
  LET Decoded(c) == IF c.err # "" THEN [err |-> c.err, commit |-> ZeroCommit] ELSE c
      Opened(f) == IF f.err # "" THEN [err |-> f.err, commit |-> ZeroCommit]
                   ELSE Decoded(DecodeCommit(f.r))
  IN Opened(OpenObject(o, id))

\* DirRepo.write of an encoded object: the encoder writes through an
\* idWriter into a temporary file, which is then renamed to the path of the
\* ID.  [id, obj, bytes]: the ID, the files afterwards, the bytes written.
RepoWrite(o, bytes) ==
  LET Renamed(iw, id) ==
        [id |-> id, obj |-> PutFile(o, ObjPath(id), iw.w), bytes |-> iw.w]
      Encoded(iw) == Renamed(iw, IDWriterID(iw))
  IN Encoded(IDWriterWrite(NewIDWriter, bytes))

RepoWriteBlob(o, value) == RepoWrite(o, EncodeBlob(value))

RepoWriteTree(o, t) == RepoWrite(o, EncodeTree(t))

RepoWriteCommit(o, c) == RepoWrite(o, EncodeCommit(c))

\* DirRepo.Head: ioutil.ReadFile, then ParseID.  [err, id].
RepoHead(h) ==
  IF ~h.exists THEN [err |-> "not exist", id |-> NilID] ELSE ParseID(h.data)

\* DirRepo.WriteHead once ioutil.WriteFile has returned.
RepoWriteHead(id) == File(IDString(id))

\* An IsNotFound that knows the notFoundError only.
IsNotFounderOnly(err) == err = "not found"

\* IsNotFound: a notFoundError, or os.IsNotExist.
IsNotFound(err) == err \in {"not found", "not exist"}

(***************************************************************************)
(* Sugar: Get, Set, Keys                                                   *)
(***************************************************************************)

\* The loop of Sugar.Get from segment i in the tree treeID: [err, r].
RECURSIVE GetWalk(_, _, _, _)
GetWalk(o, key, i, treeID) ==
  LET GotEntry(e) ==
        IF ~e.found THEN [err |-> "not found", r |-> Reader(<< >>, "eof")]
        ELSE IF i = Len(key) THEN RepoBlob(o, e.entry.ID)
        ELSE GetWalk(o, key, i + 1, e.entry.ID)
      GotTree(t) ==
        IF t.err # "" THEN [err |-> t.err, r |-> Reader(<< >>, "eof")]
        ELSE GotEntry(TreeGet(t.tree, key[i]))
  IN GotTree(RepoTree(o, treeID))

\* Sugar.Get over the object files o and the head file h: [err, r].
SugarGet(o, h, key) ==
  LET GotCommit(commit) ==
        IF commit.err # "" THEN [err |-> commit.err, r |-> Reader(<< >>, "eof")]
        ELSE IF key = << >> THEN [err |-> "panic", r |-> Reader(<< >>, "eof")]
        ELSE GetWalk(o, key, 1, commit.commit.Tree)
      GotHead(hd) ==
        IF hd.err # "" THEN [err |-> hd.err, r |-> Reader(<< >>, "eof")]
        ELSE GotCommit(RepoCommit(o, hd.id))
  IN GotHead(RepoHead(h))

\* What a caller has after Get and reading the stream to its end: [err, data].
GetValue(o, h, key) ==
  LET Got(g) == IF g.err # "" THEN [err |-> g.err, data |-> << >>] ELSE ReadAll(g.r)
  IN Got(SugarGet(o, h, key))

\* A descend loop that stops at an absent segment only, and so loads the
\* object of a blob entry as a tree.
RECURSIVE SetDescendThroughBlobs(_, _, _, _, _)
SetDescendThroughBlobs(o, key, i, treeID, trees) ==
  LET GotEntry(t, e) ==
        IF ~e.found
          THEN [err |-> "", trees |-> Append(trees, t.tree)]
          ELSE SetDescendThroughBlobs(o, key, i + 1, e.entry.ID, Append(trees, t.tree))
      GotTree(t) ==
        IF t.err # "" THEN [err |-> t.err, trees |-> trees]
        ELSE GotEntry(t, TreeGet(t.tree, key[i]))
  IN IF i > Len(key) THEN [err |-> "", trees |-> trees]
     ELSE GotTree(RepoTree(o, treeID))

\* The descend loop of Sugar.Set from segment i: the trees along the key,
\* up to the first segment that is absent or a blob.  [err, trees].
RECURSIVE SetDescend(_, _, _, _, _)
SetDescend(o, key, i, treeID, trees) ==
  LET GotEntry(t, e) ==
        IF ~e.found \/ e.entry.Kind = KindBlob
          THEN [err |-> "", trees |-> Append(trees, t.tree)]
          ELSE SetDescend(o, key, i + 1, e.entry.ID, Append(trees, t.tree))
      GotTree(t) ==
        IF t.err # "" THEN [err |-> t.err, trees |-> trees]
        ELSE GotEntry(t, TreeGet(t.tree, key[i]))
  IN IF i > Len(key) THEN [err |-> "", trees |-> trees]
     ELSE GotTree(RepoTree(o, treeID))

\* An ascend loop whose entries all have the kind of the leaf.
SetEntryAlwaysBlob(key, i, prevTreeID, blobID) ==
  Entry(KindBlob, key[i], IF prevTreeID = NilID THEN blobID ELSE prevTreeID)

\* The entry the ascend loop of Sugar.Set wants at segment i: the new blob
\* at the leaf, the tree written just before above it.
SetEntry(key, i, prevTreeID, blobID) ==
  IF prevTreeID = NilID THEN Entry(KindBlob, key[i], blobID)
  ELSE Entry(KindTree, key[i], prevTreeID)

\* The tree the ascend loop merges into at segment i: nil below the
\* descended trees.
SetTree(trees, i) == IF i <= Len(trees) THEN trees[i] ELSE << >>

\* An ascend loop that never compares with the existing entry.
SetStepAlwaysWrite(key, trees, i, prevTreeID, blobID) == "write"

\* One turn of the ascend loop: "write" the merged tree, or stop with
\* "noop" or "corrupt".
SetStep(key, trees, i, prevTreeID, blobID) ==
  LET Compare(entry, existing) ==
        IF ~existing.found \/ ~EntryEqual(existing.entry, entry) THEN "write"
        ELSE IF prevTreeID = NilID THEN "noop"
        ELSE "corrupt"
      With(entry) == Compare(entry, TreeGet(SetTree(trees, i), entry.Name))
  IN With(SetEntry(key, i, prevTreeID, blobID))

\* An ascend loop that leaves after its first write, with the tree of the
\* leaf as the root.
SetAscendLeafOnly(o, key, trees, i, prevTreeID, blobID, log) ==
  LET Written(w) ==
        [status |-> "ok", obj |-> w.obj, root |-> w.id, log |-> Append(log, w.bytes)]
  IN Written(RepoWriteTree(o,
       TreeAdd(SetTree(trees, i), SetEntry(key, i, prevTreeID, blobID))))

\* The ascend loop of Sugar.Set from segment i down to the root, writing
\* into o; log holds the byte streams written so far, in order.
\* [status, obj, root, log].
RECURSIVE SetAscend(_, _, _, _, _, _, _)
SetAscend(o, key, trees, i, prevTreeID, blobID, log) ==
  LET Written(w) ==
        SetAscend(w.obj, key, trees, i - 1, w.id, blobID, Append(log, w.bytes))
      Stepped(step) ==
        IF step = "write"
          THEN Written(RepoWriteTree(o,
                 TreeAdd(SetTree(trees, i), SetEntry(key, i, prevTreeID, blobID))))
          ELSE [status |-> step, obj |-> o, root |-> prevTreeID, log |-> log]
  IN IF i = 0 THEN [status |-> "ok", obj |-> o, root |-> prevTreeID, log |-> log]
     ELSE Stepped(SetStep(key, trees, i, prevTreeID, blobID))

\* A Set that forgets the head.
SetParentsNone(parents, hd) == parents

\* The parents Sugar.Set gives the commit: the caller's, then the head.
SetParents(parents, hd) == Append(parents, hd)

\* Sugar.Set(key, blob, commit) as one call over the object files o and the
\* head file h.  [err, id, obj, head, trees, commits, log]: the error, the
\* ID returned (nil with no error: nothing to commit), the files
\* afterwards, the numbers of WriteTree and WriteCommit calls made, and the
\* byte streams handed to DirRepo.write, in order.
SugarSet(o, h, key, value, commit) ==
  LET fail(e, oo, log) == [err |-> e, id |-> NilID, obj |-> oo, head |-> h,
                           trees |-> Len(log) - 1, commits |-> 0, log |-> log]
      none(e) == [err |-> e, id |-> NilID, obj |-> o, head |-> h,
                  trees |-> 0, commits |-> 0, log |-> << >>]
      Committed(a, w) ==
        [err |-> "", id |-> w.id, obj |-> w.obj, head |-> RepoWriteHead(w.id),
         trees |-> Len(a.log) - 1, commits |-> 1, log |-> Append(a.log, w.bytes)]
      Ascended(a, parents) ==
        IF a.status = "noop" THEN fail("", a.obj, a.log)
        ELSE IF a.status = "corrupt" THEN fail("corrupt tree", a.obj, a.log)
        ELSE Committed(a, RepoWriteCommit(a.obj,
               [commit EXCEPT !.Tree = a.root, !.Parents = parents]))
      BlobWritten(trees, parents, b) ==
        Ascended(SetAscend(b.obj, key, trees, Len(key), NilID, b.id, << b.bytes >>),
                 parents)
      Descended(d, parents) ==
        IF d.err # "" THEN none(d.err)
        ELSE BlobWritten(d.trees, parents, RepoWriteBlob(o, value))
      GotParent(hd, parent) ==
        IF parent.err # "" THEN none(parent.err)
        ELSE Descended(SetDescend(o, key, 1, parent.commit.Tree, << >>),
                       SetParents(commit.Parents, hd.id))
      GotHead(hd) ==
        IF hd.err = "" THEN GotParent(hd, RepoCommit(o, hd.id))
        ELSE IF ~IsNotFound(hd.err) THEN none(hd.err)
        ELSE BlobWritten(<< >>, commit.Parents, RepoWriteBlob(o, value))
  IN IF key = << >> THEN none("empty key") ELSE GotHead(RepoHead(h))

\* An iterator that reports a corrupt tree where it has nothing left.
IterResultNeverEnds(key, stack, rkey, rid, err) ==
  [key |-> key, stack |-> stack, rkey |-> rkey, rid |-> rid,
   err |-> IF err = "eof" THEN "corrupt tree" ELSE err]

\* An iterator that ends where it comes to an entry of no known kind.
IterResultEndsAtCorrupt(key, stack, rkey, rid, err) ==
  [key |-> key, stack |-> stack, rkey |-> rkey, rid |-> rid,
   err |-> IF err = "corrupt tree" THEN "eof" ELSE err]

\* The iterator's results: nothing yet, or the error Keys or Next returned.
IterResult(key, stack, rkey, rid, err) ==
  [key |-> key, stack |-> stack, rkey |-> rkey, rid |-> rid, err |-> err]

\* The loop of sugar.Keys from segment i of the prefix: treeID is the tree
\* to load next, tree the tree loaded last (nil before the first turn).
\* [err, key, stack]: the iterator starts over the tree loaded last.
RECURSIVE KeysWalk(_, _, _, _, _)
KeysWalk(o, prefix, i, treeID, tree) ==
  LET fail(e) == [err |-> e, key |-> << >>, stack |-> << >>]
      GotEntry(t, e) ==
        IF ~e.found THEN fail("not found")
        ELSE IF e.entry.Kind # KindTree THEN fail("not found")
        ELSE KeysWalk(o, prefix, i + 1, e.entry.ID, t.tree)
      GotTree(t) ==
        IF t.err # "" THEN fail(t.err)
        ELSE GotEntry(t, TreeGet(t.tree, prefix[i]))
  IN IF i > Len(prefix) THEN [err |-> "", key |-> prefix, stack |-> << tree >>]
     ELSE GotTree(RepoTree(o, treeID))

\* sugar.Keys(treeID, prefix).
SugarKeys(o, treeID, prefix) == KeysWalk(o, prefix, 1, treeID, << >>)

\* keyIterator.Next over the object files o: the iterator afterwards and
\* what the call returns, (rkey, rid, nil) or an error ("eof" is io.EOF).
RECURSIVE IterNext(_, _, _)
IterNext(o, key, stack) ==
  LET Pushed(entry, t) ==
        IF t.err # "" THEN IterResult(key, stack, << >>, NilID, t.err)
        ELSE IterNext(o, Append(key, entry.Name), Append(stack, t.tree))
      Popped(rest) ==
        IF rest = << >> THEN IterNext(o, key, rest)
        ELSE IterNext(o, DropLast(key), [rest EXCEPT ![Len(rest)] = Tail(@)])
      Top(tree) ==
        IF tree = << >> THEN Popped(DropLast(stack))
        ELSE IF tree[1].Kind = KindTree THEN Pushed(tree[1], RepoTree(o, tree[1].ID))
        ELSE IF tree[1].Kind = KindBlob
          THEN IterResult(key, [stack EXCEPT ![Len(stack)] = Tail(tree)],
                          Append(key, tree[1].Name), tree[1].ID, "")
        ELSE IterResult(key, stack, << >>, NilID, "corrupt tree")
  IN IF stack = << >> THEN IterResult(key, stack, << >>, NilID, "eof")
     ELSE Top(stack[Len(stack)])

(***************************************************************************)
(* The state, and the calls of a single client                             *)
(***************************************************************************)

VARIABLES
  obj,      \* the files under obj/: path |-> bytes
  head,     \* the head file
  tmp,      \* the temporary file of the write in progress
  last,     \* the last call: what was asked and what it returned
  count,    \* the calls made so far
  iter,     \* the key iterator in use
  addTree,  \* the tree built by Tree.Add calls
  proc,     \* the Set in progress, step by step
  codec,    \* the last call of the codec: what went in and what came out
  racers    \* the Sets of the concurrent clients, each at its step

vars == << obj, head, tmp, last, count, iter, addTree, proc, codec, racers >>

NameA == << "a" >>
NameB == << "b" >>

\* The keys and values the calls are made with.
Keys ==
  { << NameA >>, << NameB >>, << NameA, NameA >>, << NameA, NameB >>,
    << NameA, NameB, NameA >> }

Values == { << "x" >>, << >> }

\* The number of Set calls in a run.
MaxSets == 3

NoObjects == [q \in {} |-> << >>]

NoCall ==
  [op |-> "none", key |-> << >>, value |-> << >>, err |-> "", id |-> NilID,
   data |-> << >>, trees |-> 0, commits |-> 0, before |-> NoFile,
   tree |-> << >>, commit |-> ZeroCommit]

\* No iterator yet.  An iterator is "open", or has returned io.EOF ("eof")
\* or another error ("failed"); so is a call of Keys that returned an error.
NoIter == [state |-> "none", key |-> << >>, stack |-> << >>, yielded |-> << >>,
           root |-> NilID, prefix |-> << >>, err |-> ""]

\* No Set in progress.  A Set in progress is at the step pc of the write of
\* the first byte stream of todo, through the idWriter iw; id is the commit
\* ID it will put in the head file (nil: it returns before that).
NoProc == [pc |-> "idle", todo |-> << >>, iw |-> NewIDWriter, id |-> NilID]

\* No call of the codec yet.  A call of an encoder leaves what it was given
\* and the bytes it wrote; a call of a decoder on those bytes adds what it
\* returned.
NoCodec ==
  [op |-> "none", tree |-> << >>, commit |-> ZeroCommit, data |-> << >>,
   err |-> "", outTree |-> << >>, outCommit |-> ZeroCommit]

\* The clients that call Set at the same time.
Clients == {1, 2}

\* A client that has not called Set.  A client in Set has read the head
\* file before ("read"), has written its objects ("written"), or has
\* returned ("done"): todo holds the byte streams it writes, id the commit
\* ID it returns, wrote the rank of its write of the head file (0: none).
NoRacer ==
  [pc |-> "idle", key |-> << >>, value |-> << >>, before |-> NoFile,
   todo |-> << >>, id |-> NilID, err |-> "", wrote |-> 0]

Init ==
  /\ obj = NoObjects
  /\ head = NoFile
  /\ tmp = NoFile
  /\ last = NoCall
  /\ count = [sets |-> 0, commits |-> 0, adds |-> 0, writes |-> 0, damages |-> 0]
  /\ iter = NoIter
  /\ addTree = << >>
  /\ proc = NoProc
  /\ codec = NoCodec
  /\ racers = [p \in Clients |-> NoRacer]

\* A client calls Sugar.Set(key, value, &Commit{}).
SetCall(key, value) ==
  /\ count.sets < MaxSets
  /\ LET Returned(r) ==
           /\ obj' = r.obj
           /\ head' = r.head
           /\ last' = [NoCall EXCEPT !.op = "Set", !.key = key, !.value = value,
                                     !.err = r.err, !.id = r.id, !.trees = r.trees,
                                     !.commits = r.commits, !.before = head]
           /\ count' = [count EXCEPT !.sets = @ + 1, !.commits = @ + r.commits]
     IN Returned(SugarSet(obj, head, key, value, ZeroCommit))
  /\ UNCHANGED << tmp, iter, addTree, proc, codec, racers >>

\* A client calls Sugar.Get(key) and reads the stream to its end.
GetCall(key) ==
  /\ LET Returned(r) ==
           last' = [NoCall EXCEPT !.op = "Get", !.key = key, !.err = r.err,
                                  !.data = r.data]
     IN Returned(GetValue(obj, head, key))
  /\ UNCHANGED << obj, head, tmp, count, iter, addTree, proc, codec, racers >>

Next ==
  \/ \E key \in Keys, value \in Values : SetCall(key, value)
  \/ \E key \in Keys : GetCall(key)

Spec == Init /\ [][Next]_vars

(***************************************************************************)
(* Get and Set: the claims checked under Spec                              *)
(***************************************************************************)

\* A step of Spec that is a call of Set.
IsSetStep == count'.sets = count.sets + 1

\* Neither key is a prefix of the other.
IsPrefix(a, b) == Len(a) <= Len(b) /\ SubSeq(b, 1, Len(a)) = a

Unrelated(a, b) == ~IsPrefix(a, b) /\ ~IsPrefix(b, a)

\* C1: after Set(key, v) has returned without error, with a new commit ID
\* or with the no-op result, Get(key) yields a stream that reads exactly v
\* and ends cleanly.
C1_GetReturnsWhatSetStored ==
  (last.op = "Set" /\ last.err = "")
    => GetValue(obj, head, last.key) = [err |-> "", data |-> last.value]

\* The third Set of a run stored a value three segments deep, over a blob
\* that was in the way, and Get reads it back.
C1_Witness ==
  /\ last.op = "Set" /\ last.err = "" /\ last.id # NilID
  /\ count.sets = 3 /\ last.key = << NameA, NameB, NameA >> /\ last.trees = 3
  /\ GetValue(obj, head, << NameA, NameA >>).err = ""
  /\ GetValue(obj, head, last.key) = [err |-> "", data |-> last.value]

\* C2: a call of Set(k, v) leaves the result of Get(k2) as it was for every
\* stored key k2 such that neither k nor k2 is a prefix of the other.
C2_SetLeavesOtherKeys ==
  [][IsSetStep =>
       \A k2 \in Keys :
         (Unrelated(last'.key, k2) /\ GetValue(obj, head, k2).err = "")
           => GetValue(obj', head', k2) = GetValue(obj, head, k2)]_vars

\* A Set of a/b/a committed while a/a and b were stored: a sibling in the
\* same tree and a key in another subtree, both still readable.
C2_Witness ==
  /\ last.op = "Set" /\ last.id # NilID /\ last.key = << NameA, NameB, NameA >>
  /\ GetValue(obj, head, << NameA, NameA >>).err = ""
  /\ GetValue(obj, head, << NameB >>).err = ""

\* C3: a call of Set(key, v) made when Get(key) reads exactly v returns
\* neither an ID nor an error, leaves the head file and the object files
\* as they were, and calls neither WriteTree nor WriteCommit.
C3_SameValueIsNoOp ==
  [][(IsSetStep /\ GetValue(obj, head, last'.key) = [err |-> "", data |-> last'.value])
       => /\ last'.id = NilID /\ last'.err = ""
          /\ head' = head /\ obj' = obj
          /\ last'.trees = 0 /\ last'.commits = 0]_vars

\* A Set returned the no-op result for a nested key, after two Sets that
\* committed.
C3_Witness ==
  /\ last.op = "Set" /\ last.err = "" /\ last.id = NilID
  /\ Len(last.key) = 2 /\ count.sets = 3 /\ count.commits = 2
  /\ last.before = head /\ last.trees = 0

\* The number of commits on the first-parent chain from the commit id, or
\* -1 when a commit of the chain cannot be read; n counts the commits seen.
RECURSIVE ChainLength(_, _, _)
ChainLength(o, id, n) ==
  LET Got(c) ==
        IF c.err # "" \/ n > MaxSets THEN -1
        ELSE IF c.commit.Parents = << >> THEN n + 1
        ELSE ChainLength(o, c.commit.Parents[1], n + 1)
  IN Got(RepoCommit(o, id))

\* The commit the last Set returned is stored with Parents = [the head
\* before the call], or no parent when there was no head file; its Tree is
\* a root tree in which the key leads to the value; the head file holds its
\* ID.
LastSetCommitted ==
  LET Got(c) ==
        /\ c.err = ""
        /\ c.commit.Parents =
             (IF last.before = NoFile THEN << >> ELSE << RepoHead(last.before).id >>)
        /\ ReadAll(GetWalk(obj, last.key, 1, c.commit.Tree).r) =
             [err |-> "", data |-> last.value]
        /\ RepoHead(head) = [err |-> "", id |-> last.id]
  IN Got(RepoCommit(obj, last.id))

\* C8: a Set that changes the mapping, called with a commit without
\* parents, stores a commit whose Tree is the new root and whose Parents is
\* exactly the previous head (none when there was no head), writes its ID
\* to the head file and returns it; after n such Sets the first-parent
\* chain from the head has n commits and ends at a commit without parents.
C8_CommitChain ==
  /\ (last.op = "Set" /\ last.id # NilID) => LastSetCommitted
  /\ (head = NoFile) <=> (count.commits = 0)
  /\ head # NoFile => ChainLength(obj, RepoHead(head).id, 0) = count.commits

\* Three Sets have committed one after another.
C8_Witness ==
  /\ last.op = "Set" /\ last.id # NilID /\ count.commits = 3
  /\ last.before # NoFile
  /\ ChainLength(obj, RepoHead(head).id, 0) = 3

\* The root tree of the commit the head file names.
HeadTree(o, h) == RepoCommit(o, RepoHead(h).id).commit.Tree

\* The entry the segments i.. of key lead to from the tree treeID:
\* [found, entry].
RECURSIVE EntryWalk(_, _, _, _)
EntryWalk(o, treeID, key, i) ==
  LET Got(e) ==
        IF ~e.found \/ i = Len(key) THEN e
        ELSE EntryWalk(o, e.entry.ID, key, i + 1)
  IN Got(TreeGet(RepoTree(o, treeID).tree, key[i]))

\* The first n segments of key.
Segments(key, n) == SubSeq(key, 1, n)

\* The lengths n < len(key) such that the first n segments of key are a key
\* Get reads a blob at.
BlobPrefixes(o, h, key) ==
  { n \in 1..(Len(key) - 1) : GetValue(o, h, Segments(key, n)).err = "" }

\* C11 as stated: a Set of a key with a non-final segment that is mapped to
\* a blob returns an error, and leaves the head file and the value of the
\* blob's key as they were.
C11_SetThroughBlobFails ==
  [][(IsSetStep /\ BlobPrefixes(obj, head, last'.key) # {})
       => /\ last'.err # ""
          /\ head' = head
          /\ \A n \in BlobPrefixes(obj, head, last'.key) :
               GetValue(obj', head', Segments(last'.key, n))
                 = GetValue(obj, head, Segments(last'.key, n))]_vars

\* C11, amended: a Set of a key with a non-final segment that is mapped to
\* a blob returns a new commit ID and no error, and puts that ID in the
\* head file; Get of the blob's key fails afterwards.
C11_SetThroughBlobCommits ==
  [][(IsSetStep /\ BlobPrefixes(obj, head, last'.key) # {})
       => /\ last'.err = "" /\ last'.id # NilID
          /\ head' = RepoWriteHead(last'.id) /\ head' # head
          /\ \A n \in BlobPrefixes(obj, head, last'.key) :
               GetValue(obj', head', Segments(last'.key, n)).err # ""]_vars

\* A Set of a/b/a has committed over a head in which a/b was a blob, and
\* a/b is a blob no more.
C11_Witness ==
  /\ last.op = "Set" /\ last.err = "" /\ last.id # NilID
  /\ last.key = << NameA, NameB, NameA >>
  /\ BlobPrefixes(obj, last.before, last.key) = {2}
  /\ GetValue(obj, head, << NameA, NameB >>).err # ""

\* C12: a Set of a key with a non-final segment that is mapped to a blob
\* succeeds: the descend loop stops at the blob, the trees below it are
\* made anew with one entry each, the blob's entry gives way to a tree
\* entry of the same name, and Get of the key then reads the value.
C12_SetReplacesBlobByTree ==
  [][(IsSetStep /\ BlobPrefixes(obj, head, last'.key) # {})
       => \A n \in BlobPrefixes(obj, head, last'.key) :
            /\ \A before \in { HeadTree(obj, head) } :
                 Len(SetDescend(obj, last'.key, 1, before, << >>).trees) = n
            /\ \A root \in { HeadTree(obj', head') } :
                 \A m \in n..(Len(last'.key) - 1) :
                   \A e \in { EntryWalk(obj', root, Segments(last'.key, m), 1) } :
                     /\ e.found /\ e.entry.Kind = KindTree
                     /\ Len(RepoTree(obj', e.entry.ID).tree) = 1
            /\ GetValue(obj', head', last'.key) = [err |-> "", data |-> last'.value]]_vars

\* Set(a, v) and then Set(a/a, w): a is a tree entry now, and Get(a/a)
\* reads w.
C12_Witness ==
  /\ last.op = "Set" /\ last.key = << NameA, NameA >> /\ last.id # NilID
  /\ GetValue(obj, last.before, << NameA >>).err = ""
  /\ EntryWalk(obj, HeadTree(obj, head), << NameA >>, 1).entry.Kind = KindTree
  /\ GetValue(obj, head, last.key) = [err |-> "", data |-> last.value]

\* C13: a Get of a key with a non-final segment that is mapped to a blob
\* returns an error for which IsNotFound is true.
C13_GetThroughBlobIsNotFound ==
  (last.op = "Get" /\ BlobPrefixes(obj, head, last.key) # {})
    => last.err # "" /\ IsNotFound(last.err)

\* The first n segments of key lead from the tree root, through tree
\* entries, to a tree: [found, id].
TreeReached(o, root, key, n) ==
  IF n = 0 THEN [found |-> TRUE, id |-> root]
  ELSE [found |-> \A m \in 1..n :
                    \A e \in { EntryWalk(o, root, Segments(key, m), 1) } :
                      e.found /\ e.entry.Kind = KindTree,
        id |-> EntryWalk(o, root, Segments(key, n), 1).entry.ID]

\* A segment of key has no entry in the tree that the segments before it
\* lead to.
MissingSegment(o, root, key) ==
  \E n \in 1..Len(key) :
    \E before \in { TreeReached(o, root, key, n - 1) } :
      before.found /\ ~TreeGet(RepoTree(o, before.id).tree, key[n]).found

\* C14: Get returns an error for which IsNotFound is true whenever a
\* segment of the key has no entry in the tree reached by the segments
\* before it, and whenever there is no head file.
C14_MissingKeyIsNotFound ==
  last.op = "Get"
    => /\ head = NoFile => (last.err # "" /\ IsNotFound(last.err))
       /\ head # NoFile =>
            \A root \in { HeadTree(obj, head) } :
              MissingSegment(obj, root, last.key)
                => (last.err # "" /\ IsNotFound(last.err))

\* Get(a/b) has failed where a is a tree without an entry b.
C14_Witness ==
  /\ last.op = "Get" /\ last.key = << NameA, NameB >> /\ last.err = "not found"
  /\ head # NoFile
  /\ TreeReached(obj, HeadTree(obj, head), last.key, 1).found
  /\ MissingSegment(obj, HeadTree(obj, head), last.key)

\* C17: a Set that returns a new commit ID has called WriteTree exactly
\* len(key) times, once per segment of the key; a Set that returns the
\* no-op result has not called it; a Get writes no object.
C17_TreeWritesPerSet ==
  [][/\ IsSetStep =>
          /\ last'.id # NilID => last'.trees = Len(last'.key)
          /\ (last'.id = NilID /\ last'.err = "") => (last'.trees = 0 /\ obj' = obj)
     /\ last'.op = "Get" => obj' = obj]_vars

\* The first commit of a run came from a Set of a key of three segments,
\* with three tree writes.
C17_Witness ==
  /\ last.op = "Set" /\ last.id # NilID /\ count.commits = 1
  /\ Len(last.key) = 3 /\ last.trees = 3

(***************************************************************************)
(* Tree.Add on its own                                                     *)
(***************************************************************************)

NameC == << "c" >>

\* The entries handed to Tree.Add: three names, two blobs.
AddEntries ==
  { Entry(KindBlob, name, IDOfBytes(EncodeBlob(value))) :
      name \in {NameA, NameB, NameC}, value \in Values }

\* The number of Tree.Add calls in a run.
MaxAdds == 3

\* A client calls t = t.Add(entry), starting from the nil tree.
AddCall(entry) ==
  /\ count.adds < MaxAdds
  /\ addTree' = TreeAdd(addTree, entry)
  /\ count' = [count EXCEPT !.adds = @ + 1]
  /\ last' = [NoCall EXCEPT !.op = "Add", !.key = << entry.Name >>, !.tree = addTree]
  /\ UNCHANGED << obj, head, tmp, iter, proc, codec, racers >>

NextTree == \E entry \in AddEntries : AddCall(entry)

SpecTree == Init /\ [][NextTree]_vars

\* C9: after any sequence of Tree.Add calls on the nil tree, the entries of
\* the tree are strictly ascending by Name.
C9_AddKeepsTreeSorted ==
  \A i \in 1..(Len(addTree) - 1) : StrLess(addTree[i].Name, addTree[i + 1].Name)

(***************************************************************************)
(* Keys: iterating over the keys of the head commit's tree                 *)
(***************************************************************************)

\* The prefixes Keys is called with.
KeyPrefixes == { << >>, << NameA >>, << NameA, NameB >> }

\* A client calls Keys(root, prefix), root being the tree of the head
\* commit.
KeysCall(prefix) ==
  /\ iter.state = "none"
  /\ head # NoFile
  /\ LET Returned(root, r) ==
           iter' = [state |-> IF r.err = "" THEN "open" ELSE "failed",
                    key |-> r.key, stack |-> r.stack, yielded |-> << >>,
                    root |-> root, prefix |-> prefix, err |-> r.err]
         Rooted(root) == Returned(root, SugarKeys(obj, root, prefix))
     IN Rooted(RepoCommit(obj, RepoHead(head).id).commit.Tree)
  /\ last' = [NoCall EXCEPT !.op = "Keys", !.key = prefix]
  /\ UNCHANGED << obj, head, tmp, count, addTree, proc, codec, racers >>

\* The client calls Next on the iterator.
NextCall ==
  /\ iter.state = "open"
  /\ LET Returned(r) ==
           iter' = [iter EXCEPT
                      !.state = IF r.err = "" THEN "open"
                                ELSE IF r.err = "eof" THEN "eof" ELSE "failed",
                      !.key = r.key, !.stack = r.stack, !.err = r.err,
                      !.yielded = IF r.err = "" THEN Append(@, [key |-> r.rkey, id |-> r.rid])
                                  ELSE @]
     IN Returned(IterNext(obj, iter.key, iter.stack))
  /\ last' = [NoCall EXCEPT !.op = "Next"]
  /\ UNCHANGED << obj, head, tmp, count, addTree, proc, codec, racers >>

NextKeys ==
  \/ \E key \in Keys, value \in Values : iter.state = "none" /\ SetCall(key, value)
  \/ \E prefix \in KeyPrefixes : KeysCall(prefix)
  \/ NextCall

SpecKeys == Init /\ [][NextKeys]_vars

\* The tree a prefix resolves to from the tree treeID: [found, id].
RECURSIVE ResolveTree(_, _, _, _)
ResolveTree(o, treeID, prefix, i) ==
  LET Got(e) ==
        IF ~e.found \/ e.entry.Kind # KindTree THEN [found |-> FALSE, id |-> NilID]
        ELSE ResolveTree(o, e.entry.ID, prefix, i + 1)
  IN IF i > Len(prefix) THEN [found |-> TRUE, id |-> treeID]
     ELSE Got(TreeGet(RepoTree(o, treeID).tree, prefix[i]))

\* The pairs (path ++ relative path, blob ID) of the blobs reachable from
\* the tree treeID.
RECURSIVE BlobsUnder(_, _, _)
BlobsUnder(o, treeID, path) ==
  LET Of(t) ==
        UNION { IF t[i].Kind = KindBlob
                  THEN { [key |-> Append(path, t[i].Name), id |-> t[i].ID] }
                  ELSE BlobsUnder(o, t[i].ID, Append(path, t[i].Name)) :
                i \in 1..Len(t) }
  IN Of(RepoTree(o, treeID).tree)

\* What a full iteration must yield.
IterExpected == BlobsUnder(obj, ResolveTree(obj, iter.root, iter.prefix, 1).id, iter.prefix)

\* C10: for the root tree of the head commit and every prefix that resolves
\* to a tree, the empty prefix included, Keys returns an iterator that
\* yields, before io.EOF, exactly one pair (prefix ++ relative path, blob
\* ID) for each blob reachable from the tree at the prefix, and nothing
\* else.
C10_KeysYieldsEveryBlobOnce ==
  /\ (iter.state = "failed" /\ iter.yielded = << >> /\ iter.stack = << >>)
       => ~ResolveTree(obj, iter.root, iter.prefix, 1).found
  /\ iter.state = "eof"
       => /\ { iter.yielded[i] : i \in 1..Len(iter.yielded) } = IterExpected
          /\ Len(iter.yielded) = Cardinality(IterExpected)

\* Key a comes before key b: segment by segment, the names compared
\* byte-wise, a proper prefix first.
RECURSIVE KeyLess(_, _)
KeyLess(a, b) ==
  IF b = << >> THEN FALSE
  ELSE IF a = << >> THEN TRUE
  ELSE IF a[1] = b[1] THEN KeyLess(Tail(a), Tail(b))
  ELSE StrLess(a[1], b[1])

BlobID(value) == IDOfBytes(EncodeBlob(value))

\* The trees written: nil, one entry, two entries out of order.
StoreTrees ==
  { << >>,
    << Entry(KindBlob, NameA, BlobID(<< "x" >>)) >>,
    << Entry(KindTree, NameB, IDOfBytes(EncodeTree(<< >>))),
       Entry(KindBlob, NameA, BlobID(<< >>)) >> }

\* The commits written: the zero Commit; one with a tree, a parent, a zone
\* and a message; one with nanoseconds; one at the zero instant in a zone
\* east of UTC.
StoreCommits ==
  { ZeroCommit,
    Commit(IDOfBytes(EncodeTree(<< >>)), << BlobID(<< >>) >>, Time(5, 0, 1),
           Message(<< "h", "i" >>)),
    Commit(NilID, << >>, Time(5, 7, 0), NilMessage),
    Commit(NilID, << >>, Time(ZeroTimeUnix, 0, 1), NilMessage) }

\* The numbers of write calls and of damages in a run.
MaxWrites == 2

MaxDamages == 1

\* The ID a path stands for.
PathID(p) == ParseID(p[1] \o p[2]).id

StoredIDs == { PathID(p) : p \in DOMAIN obj }

\* A client calls WriteBlob(value).
WriteBlobCall(value) ==
  /\ count.writes < MaxWrites
  /\ LET Returned(w) ==
           /\ obj' = w.obj
           /\ last' = [NoCall EXCEPT !.op = "WriteBlob", !.value = value, !.id = w.id]
     IN Returned(RepoWriteBlob(obj, value))
  /\ count' = [count EXCEPT !.writes = @ + 1]
  /\ UNCHANGED << head, tmp, iter, addTree, proc, codec, racers >>

\* A client calls WriteTree(t); sort.Sort has put the caller's tree in
\* order when the call returns.
WriteTreeCall(t) ==
  /\ count.writes < MaxWrites
  /\ LET Returned(w) ==
           /\ obj' = w.obj
           /\ last' = [NoCall EXCEPT !.op = "WriteTree", !.tree = SortTree(t), !.id = w.id]
     IN Returned(RepoWriteTree(obj, t))
  /\ count' = [count EXCEPT !.writes = @ + 1]
  /\ UNCHANGED << head, tmp, iter, addTree, proc, codec, racers >>

\* A client calls WriteCommit(c).
WriteCommitCall(c) ==
  /\ count.writes < MaxWrites
  /\ LET Returned(w) ==
           /\ obj' = w.obj
           /\ last' = [NoCall EXCEPT !.op = "WriteCommit", !.commit = c, !.id = w.id]
     IN Returned(RepoWriteCommit(obj, c))
  /\ count' = [count EXCEPT !.writes = @ + 1]
  /\ UNCHANGED << head, tmp, iter, addTree, proc, codec, racers >>

\* A client calls Blob(id) and reads the stream to its end.
BlobCall(id) ==
  /\ LET Read(r) == last' = [NoCall EXCEPT !.op = "Blob", !.id = id, !.err = r.err,
                                          !.data = r.data]
         Returned(b) == IF b.err # "" THEN Read([err |-> b.err, data |-> << >>])
                        ELSE Read(ReadAll(b.r))
     IN Returned(RepoBlob(obj, id))
  /\ UNCHANGED << obj, head, tmp, count, iter, addTree, proc, codec, racers >>

\* A client calls Tree(id).
TreeCall(id) ==
  /\ LET Returned(t) ==
           last' = [NoCall EXCEPT !.op = "Tree", !.id = id, !.err = t.err, !.tree = t.tree]
     IN Returned(RepoTree(obj, id))
  /\ UNCHANGED << obj, head, tmp, count, iter, addTree, proc, codec, racers >>

\* A client calls Commit(id).
CommitCall(id) ==
  /\ LET Returned(c) ==
           last' = [NoCall EXCEPT !.op = "Commit", !.id = id, !.err = c.err,
                                  !.commit = c.commit]
     IN Returned(RepoCommit(obj, id))
  /\ UNCHANGED << obj, head, tmp, count, iter, addTree, proc, codec, racers >>

\* Where a file is damaged: at its first byte, at the first byte of a field
\* or of a line.
DamagePositions(data) ==
  { i \in 1..Len(data) : i = 1 \/ data[i - 1] \in {" ", "\n"} }

\* A file with byte i overwritten, with a byte put in before byte i, or cut
\* off before byte i.
Damaged(data, i, how) ==
  CASE how = "overwrite" ->
         [data EXCEPT ![i] = IF @ = "-" THEN "x" ELSE "-"]
    [] how = "insert" ->
         SubSeq(data, 1, i - 1) \o << "-" >> \o SubSeq(data, i, Len(data))
    [] OTHER -> SubSeq(data, 1, i - 1)

\* Something outside the program changes the bytes of a stored file.
Damage(p, i, how) ==
  /\ count.damages < MaxDamages
  /\ obj' = [obj EXCEPT ![p] = Damaged(@, i, how)]
  /\ count' = [count EXCEPT !.damages = @ + 1]
  /\ last' = [NoCall EXCEPT !.op = "Damage", !.id = PathID(p)]
  /\ UNCHANGED << head, tmp, iter, addTree, proc, codec, racers >>

NextStore ==
  \/ \E value \in Values : WriteBlobCall(value)
  \/ \E t \in StoreTrees : WriteTreeCall(t)
  \/ \E c \in StoreCommits : WriteCommitCall(c)
  \/ \E id \in StoredIDs : BlobCall(id)
  \/ \E id \in StoredIDs : TreeCall(id)
  \/ \E id \in StoredIDs : CommitCall(id)
  \/ \E p \in DOMAIN obj : \E i \in DamagePositions(obj[p]) :
       \E how \in {"overwrite", "insert", "cut"} : Damage(p, i, how)

SpecStore == Init /\ [][NextStore]_vars

\* The bytes are stored at obj/<first 2 hex digits>/<the other digits> of id.
StoredAt(id, bytes) ==
  \E p \in DOMAIN obj :
    Len(p[1]) = 2 /\ p[1] \o p[2] = IDString(id) /\ obj[p] = bytes

\* Two commits are equal field by field, the messages as bytes.
CommitEqual(a, b) ==
  /\ a.Tree = b.Tree /\ a.Parents = b.Parents /\ a.Time = b.Time
  /\ a.Message.data = b.Message.data

\* C4: for every blob, tree and commit, the write returns the fingerprint of
\* the encoded byte stream, prefix and body, stores those bytes at
\* obj/<first 2 hex digits>/<the other digits>, and a read of the returned
\* ID then yields an object equal to the one written.
C4_WriteThenRead ==
  /\ last.op = "WriteBlob" =>
       /\ last.id = IDOfBytes(EncodeBlob(last.value))
       /\ StoredAt(last.id, EncodeBlob(last.value))
       /\ RepoBlob(obj, last.id).err = ""
       /\ ReadAll(RepoBlob(obj, last.id).r) = [err |-> "", data |-> last.value]
  /\ last.op = "WriteTree" =>
       /\ last.id = IDOfBytes(EncodeTree(last.tree))
       /\ StoredAt(last.id, EncodeTree(last.tree))
       /\ RepoTree(obj, last.id) = [err |-> "", tree |-> last.tree]
  /\ last.op = "WriteCommit" =>
       /\ last.id = IDOfBytes(EncodeCommit(last.commit))
       /\ StoredAt(last.id, EncodeCommit(last.commit))
       /\ RepoCommit(obj, last.id).err = ""
       /\ CommitEqual(RepoCommit(obj, last.id).commit, last.commit)

\* A call returned an error: it did not succeed and did not abort.
IsError(err) == err \notin {"", "panic"}

\* C5: when the bytes stored at the path of an ID are not the bytes whose
\* fingerprint is the ID, Tree(id) and Commit(id) return an error, and
\* Blob(id) returns an error or a stream that ends with an error.
C5_DamagedObjectIsRefused ==
  \A p \in DOMAIN obj :
    IDOfBytes(obj[p]) # PathID(p) =>
      /\ IsError(RepoTree(obj, PathID(p)).err)
      /\ IsError(RepoCommit(obj, PathID(p)).err)
      /\ \/ IsError(RepoBlob(obj, PathID(p)).err)
         \/ IsError(ReadAll(RepoBlob(obj, PathID(p)).r).err)

\* The file of the ID holds the bytes whose fingerprint the ID is, and they
\* do not begin with the prefix.
StoredOtherKind(id, prefix) ==
  /\ HasPath(id) /\ ObjPath(id) \in DOMAIN obj
  /\ IDOfBytes(obj[ObjPath(id)]) = id
  /\ ~IsPrefix(prefix, obj[ObjPath(id)])

\* C22: Blob, Tree or Commit called with the ID of a stored object of
\* another kind returns an error and no decoded object.
C22_OtherKindIsRefused ==
  /\ (last.op = "Blob" /\ StoredOtherKind(last.id, blobPrefix))
       => (IsError(last.err) /\ last.data = << >>)
  /\ (last.op = "Tree" /\ StoredOtherKind(last.id, treePrefix))
       => (IsError(last.err) /\ last.tree = << >>)
  /\ (last.op = "Commit" /\ StoredOtherKind(last.id, commitPrefix))
       => (IsError(last.err) /\ last.commit = ZeroCommit)

\* Blob has been called with the ID of a stored tree of one entry.
C22_Witness ==
  /\ last.op = "Blob"
  /\ last.id = IDOfBytes(EncodeTree(<< Entry(KindBlob, NameA, BlobID(<< "x" >>)) >>))
  /\ StoredOtherKind(last.id, blobPrefix)
  /\ last.err = "bad blob prefix"

(***************************************************************************)
(* Set step by step: temporary file, rename, head file; crashes, failures  *)
(***************************************************************************)

\* The keys of the Sets that may crash, and their number in a run.
CrashKeys == { << NameA >>, << NameA, NameB >> }

MaxCrashSets == 2

\* Set reads the head, the commit and the trees, and so knows the byte
\* streams it will write, in order, and the commit ID it will put in the
\* head file.  With nothing to write it has returned.
BeginSet(key, value) ==
  /\ proc.pc = "idle"
  /\ count.sets < MaxCrashSets
  /\ LET Planned(r) ==
           /\ proc' = IF r.log = << >> THEN NoProc
                      ELSE [pc |-> "create", todo |-> r.log, iw |-> NewIDWriter,
                            id |-> r.id]
           /\ last' = [NoCall EXCEPT !.op = "Set", !.key = key, !.value = value,
                                     !.err = r.err, !.id = r.id, !.before = head]
     IN Planned(SugarSet(obj, head, key, value, ZeroCommit))
  /\ count' = [count EXCEPT !.sets = @ + 1]
  /\ UNCHANGED << obj, head, tmp, iter, addTree, codec, racers >>

\* DirRepo.write: ioutil.TempFile and NewIDWriter.
CreateTemp ==
  /\ proc.pc = "create"
  /\ tmp' = File(<< >>)
  /\ proc' = [proc EXCEPT !.pc = "encode", !.iw = NewIDWriter]
  /\ UNCHANGED << obj, head, last, count, iter, addTree, codec, racers >>

\* The encoder's bytes reach the temporary file through the idWriter, the
\* first half of them here.
WritePart ==
  /\ proc.pc = "encode"
  /\ LET Wrote(iw) == tmp' = File(iw.w) /\ proc' = [proc EXCEPT !.pc = "flush", !.iw = iw]
     IN Wrote(IDWriterWrite(proc.iw, SubSeq(proc.todo[1], 1, Len(proc.todo[1]) \div 2)))
  /\ UNCHANGED << obj, head, last, count, iter, addTree, codec, racers >>

\* The other half of the bytes.
WriteRest ==
  /\ proc.pc = "flush"
  /\ LET Wrote(iw) == tmp' = File(iw.w) /\ proc' = [proc EXCEPT !.pc = "rename", !.iw = iw]
     IN Wrote(IDWriterWrite(proc.iw,
                SubSeq(proc.todo[1], Len(proc.todo[1]) \div 2 + 1, Len(proc.todo[1]))))
  /\ UNCHANGED << obj, head, last, count, iter, addTree, codec, racers >>

\* DirRepo.write: the temporary file is renamed to the path of the ID the
\* idWriter has computed.  Set goes on to its next write, to the head file,
\* or returns.
Rename ==
  /\ proc.pc = "rename"
  /\ obj' = PutFile(obj, ObjPath(IDWriterID(proc.iw)), tmp.data)
  /\ tmp' = NoFile
  /\ proc' = IF Len(proc.todo) > 1
               THEN [proc EXCEPT !.pc = "create", !.todo = Tail(@)]
             ELSE IF proc.id # NilID
               THEN [proc EXCEPT !.pc = "truncate", !.todo = << >>]
             ELSE NoProc
  /\ UNCHANGED << head, last, count, iter, addTree, codec, racers >>

\* DirRepo.WriteHead: ioutil.WriteFile opens the head file and truncates it.
HeadTruncate ==
  /\ proc.pc = "truncate"
  /\ head' = File(<< >>)
  /\ proc' = [proc EXCEPT !.pc = "head"]
  /\ UNCHANGED << obj, tmp, last, count, iter, addTree, codec, racers >>

\* DirRepo.WriteHead: the ID is written to the head file; Set returns.
HeadWrite ==
  /\ proc.pc = "head"
  /\ head' = RepoWriteHead(proc.id)
  /\ proc' = NoProc
  /\ UNCHANGED << obj, tmp, last, count, iter, addTree, codec, racers >>

\* The process stops where it is; the files stay as they are.
Crash ==
  /\ proc.pc # "idle"
  /\ proc' = NoProc
  /\ last' = [last EXCEPT !.err = "crash"]
  /\ UNCHANGED << obj, head, tmp, count, iter, addTree, codec, racers >>

\* The system call of the current step fails: Set returns the error, and
\* DirRepo.write has removed its temporary file on the way out.
Fail ==
  /\ proc.pc # "idle"
  /\ proc' = NoProc
  /\ tmp' = NoFile
  /\ last' = [last EXCEPT !.err = "io error"]
  /\ UNCHANGED << obj, head, count, iter, addTree, codec, racers >>

NextCrash ==
  \/ \E key \in CrashKeys, value \in Values : BeginSet(key, value)
  \/ CreateTemp
  \/ WritePart
  \/ WriteRest
  \/ Rename
  \/ HeadTruncate
  \/ HeadWrite
  \/ Crash
  \/ Fail

SpecCrash == Init /\ [][NextCrash]_vars

\* The bytes are a complete encoding of a blob, a tree or a commit.
CompleteEncoding(bytes) ==
  \/ DecodeBlob(Reader(bytes, "eof")).err = ""
  \/ DecodeTree(Reader(bytes, "eof")).err = ""
  \/ DecodeCommit(Reader(bytes, "eof")).err = ""

\* C6: at every instant, after a crash at any step of a write too, every
\* file at a path obj/<id> holds a complete encoding whose fingerprint is
\* id; bytes written in part are in the temporary file only.
C6_ObjectFilesAreComplete ==
  \A p \in DOMAIN obj :
    /\ Len(p[1]) = 2
    /\ p[1] \o p[2] = IDString(IDOfBytes(obj[p]))
    /\ CompleteEncoding(obj[p])

\* A Set crashed while it wrote its second object: the first is stored, and
\* the temporary file holds half an encoding that is stored nowhere.
C6_Witness ==
  /\ proc.pc = "idle" /\ last.op = "Set" /\ last.err = "crash"
  /\ obj # NoObjects
  /\ tmp.exists /\ tmp.data # << >>
  /\ ~CompleteEncoding(tmp.data)
  /\ \A p \in DOMAIN obj : obj[p] # tmp.data

\* C7: when a step of a Set has failed or the process has crashed during
\* it, the write of the head file included, the head file holds the ID it
\* held before the Set or the ID of the new commit.
C7_HeadIsOldOrNew ==
  (proc.pc = "idle" /\ last.op = "Set")
    => \/ head = last.before
       \/ last.id # NilID /\ head = File(IDString(last.id))

(***************************************************************************)
(* The codec on its own: encoding a tree or a commit, and decoding the     *)
(* bytes                                                                   *)
(***************************************************************************)

\* Names with a space and with a newline, and the empty name.
NameSpace == << "a", " ", "b" >>
NameLine == << "\n", "a" >>

CodecNames == { NameA, NameSpace, NameLine, << >> }

CodecIDs == { NilID, BlobID(<< "x" >>) }

CodecEntries ==
  { Entry(kind, name, id) :
      kind \in {KindBlob, KindTree}, name \in CodecNames, id \in CodecIDs }

\* The number of entries of the trees encoded.
MaxEntries == 2

\* The trees of at most n entries with unique names, in every order.
RECURSIVE TreesUpTo(_)
TreesUpTo(n) ==
  IF n = 0 THEN { << >> }
  ELSE LET Longer(shorter) ==
             shorter \cup
               { Append(te[1], te[2]) :
                   te \in { pair \in shorter \X CodecEntries :
                              /\ Len(pair[1]) = n - 1
                              /\ \A i \in 1..(n - 1) : pair[1][i].Name # pair[2].Name } }
       IN Longer(TreesUpTo(n - 1))

CodecTrees == TreesUpTo(MaxEntries)

\* The commits encoded: with and without a tree, with no parent, one, two
\* in both orders, at the zero instant and at whole seconds before and after
\* 1970 in zones on both sides of UTC, without a message, with an empty one
\* and with text.
CodecCommits ==
  { Commit(tree, parents, time, msg) :
      tree \in CodecIDs,
      parents \in { << >>, << BlobID(<< "x" >>) >>,
                    << BlobID(<< "x" >>), BlobID(<< >>) >>,
                    << BlobID(<< >>), BlobID(<< "x" >>) >> },
      time \in { ZeroTime, Time(ZeroTimeUnix, 0, 1), Time(5, 0, 0), Time(5, 0, 1),
                 Time(-5, 0, -1) },
      msg \in { NilMessage, Message(<< >>), Message(<< "h", "i" >>),
                Message(<< "\n", "x" >>) } }

\* A client calls EncodeTree(w, t).  The codec keeps nothing between calls:
\* a run makes one call of an encoder, and then decodes.
EncodeTreeCall(t) ==
  /\ codec.op = "none"
  /\ codec' = [NoCodec EXCEPT !.op = "EncodeTree", !.tree = t, !.data = EncodeTree(t)]
  /\ UNCHANGED << obj, head, tmp, last, count, iter, addTree, proc, racers >>

\* The client calls DecodeTree on the bytes EncodeTree wrote.
DecodeTreeCall ==
  /\ codec.op = "EncodeTree"
  /\ LET Returned(r) ==
           codec' = [codec EXCEPT !.op = "DecodeTree", !.err = r.err, !.outTree = r.tree]
     IN Returned(DecodeTree(Reader(codec.data, "eof")))
  /\ UNCHANGED << obj, head, tmp, last, count, iter, addTree, proc, racers >>

\* A client calls EncodeCommit(w, c).
EncodeCommitCall(c) ==
  /\ codec.op = "none"
  /\ codec' = [NoCodec EXCEPT !.op = "EncodeCommit", !.commit = c, !.data = EncodeCommit(c)]
  /\ UNCHANGED << obj, head, tmp, last, count, iter, addTree, proc, racers >>

\* The client calls DecodeCommit on the bytes EncodeCommit wrote.
DecodeCommitCall ==
  /\ codec.op = "EncodeCommit"
  /\ LET Returned(r) ==
           codec' = [codec EXCEPT !.op = "DecodeCommit", !.err = r.err,
                                  !.outCommit = r.commit]
     IN Returned(DecodeCommit(Reader(codec.data, "eof")))
  /\ UNCHANGED << obj, head, tmp, last, count, iter, addTree, proc, racers >>

NextCodec ==
  \/ \E t \in CodecTrees : EncodeTreeCall(t)
  \/ DecodeTreeCall
  \/ \E c \in CodecCommits : EncodeCommitCall(c)
  \/ DecodeCommitCall

SpecCodec == Init /\ [][NextCodec]_vars

\* C18: for every commit with a time of whole seconds, DecodeCommit of the
\* bytes of EncodeCommit returns the commit, field by field, the parents in
\* their order; an empty message comes back as no message.
C18_CommitRoundTrip ==
  codec.op = "DecodeCommit"
    => /\ codec.err = ""
       /\ codec.outCommit.Tree = codec.commit.Tree
       /\ codec.outCommit.Parents = codec.commit.Parents
       /\ codec.outCommit.Time = codec.commit.Time
       /\ codec.outCommit.Message.data = codec.commit.Message.data
       /\ codec.commit.Message.data = << >> => codec.outCommit.Message.isNil

\* The names of a tree ascend strictly.
Ascending(t) == \A i \in 1..(Len(t) - 1) : StrLess(t[i].Name, t[i + 1].Name)

\* The entries of a tree, as a set.
EntrySet(t) == { t[i] : i \in 1..Len(t) }

\* C19: EncodeTree and WriteTree emit the entries in ascending order of
\* Name whatever the order they are given in: every ordering of the same
\* uniquely named entries gives the same bytes and the same ID.
C19_EncodeTreeIsOrderFree ==
  codec.op = "EncodeTree"
    => /\ \E s \in CodecTrees :
            /\ EntrySet(s) = EntrySet(codec.tree) /\ Ascending(s)
            /\ codec.data = treePrefix \o EncodeEntries(s)
       /\ \A t \in CodecTrees :
            EntrySet(t) = EntrySet(codec.tree)
              => /\ EncodeTree(t) = codec.data
                 /\ RepoWriteTree(obj, t).bytes = codec.data
                 /\ RepoWriteTree(obj, t).id = RepoWriteTree(obj, codec.tree).id

\* EncodeTree was given two entries in descending order of Name.
C19_Witness ==
  /\ codec.op = "EncodeTree" /\ Len(codec.tree) = 2
  /\ StrLess(codec.tree[2].Name, codec.tree[1].Name)
  /\ codec.data # treePrefix \o EncodeEntries(codec.tree)

\* C20: for every tree with unique names, the empty tree, entries with the
\* nil ID and names with spaces or newlines included, DecodeTree of the
\* bytes of EncodeTree returns exactly the entries of the tree, Kind, ID
\* and Name as they were, in ascending order of Name.
C20_TreeRoundTrip ==
  codec.op = "DecodeTree"
    => /\ codec.err = ""
       /\ Len(codec.outTree) = Len(codec.tree)
       /\ EntrySet(codec.outTree) = EntrySet(codec.tree)
       /\ Ascending(codec.outTree)

\* A tree of two entries given out of order has come back in order: one
\* entry has the nil ID, one a name with a newline, one a name with a space.
C20_Witness ==
  /\ codec.op = "DecodeTree" /\ codec.err = "" /\ Len(codec.outTree) = 2
  /\ codec.outTree # codec.tree
  /\ \E i \in 1..2 : codec.outTree[i].ID = NilID
  /\ \E i \in 1..2 : codec.outTree[i].Name = NameLine
  /\ \E i \in 1..2 : codec.outTree[i].Name = NameSpace

(***************************************************************************)
(* Writes, Set, Get and Keys together: the object files only grow          *)
(***************************************************************************)

\* The number of writes and Sets in a run.
MaxOps == 2

OpsLeft == count.sets + count.writes < MaxOps

NextOps ==
  \/ \E value \in Values : OpsLeft /\ WriteBlobCall(value)
  \/ \E t \in StoreTrees : OpsLeft /\ WriteTreeCall(t)
  \/ \E c \in StoreCommits : OpsLeft /\ WriteCommitCall(c)
  \/ \E key \in Keys, value \in Values :
       OpsLeft /\ iter.state = "none" /\ SetCall(key, value)
  \/ \E key \in Keys : GetCall(key)
  \/ \E prefix \in KeyPrefixes : KeysCall(prefix)
  \/ NextCall

SpecOps == Init /\ [][NextOps]_vars

\* The bytes a write call hands to DirRepo.write.
WrittenBytes(call) ==
  CASE call.op = "WriteBlob" -> EncodeBlob(call.value)
    [] call.op = "WriteTree" -> EncodeTree(call.tree)
    [] OTHER -> EncodeCommit(call.commit)

\* C16: a write of an object whose bytes are already stored returns the ID
\* they are stored under and leaves the object files as they were; no
\* write, Set, Get, Keys or Next changes or removes the bytes stored under
\* an existing object ID.
C16_ObjectsAreNeverChanged ==
  [][/\ \A p \in DOMAIN obj : p \in DOMAIN obj' /\ obj'[p] = obj[p]
     /\ count'.writes = count.writes + 1 =>
          \A p \in DOMAIN obj :
            obj[p] = WrittenBytes(last')
              => (ObjPath(last'.id) = p /\ obj' = obj)]_vars

\* After a Set has stored a blob, a tree and a commit, WriteBlob of the same
\* value has returned the ID of the stored blob, and three files are there.
C16_Witness ==
  /\ last.op = "WriteBlob" /\ count.sets = 1 /\ count.writes = 1
  /\ Cardinality(DOMAIN obj) = 3
  /\ ObjPath(last.id) \in DOMAIN obj
  /\ GetValue(obj, head, << NameA >>) = [err |-> "", data |-> last.value]

(***************************************************************************)
(* Two clients in Set at the same time                                     *)
(***************************************************************************)

\* The keys the two clients set.
RaceKeys == { << NameA >>, << NameB >>, << NameA, NameB >> }

\* The number of Sets made one after another before the two clients start.
MaxBaseSets == 1

AllIdle == \A p \in Clients : racers[p].pc = "idle"

\* The object files after DirRepo.write of each byte stream of log in turn.
RECURSIVE WriteAll(_, _)
WriteAll(o, log) ==
  IF log = << >> THEN o ELSE WriteAll(RepoWrite(o, log[1]).obj, Tail(log))

\* Client p calls Set(key, value, &Commit{}) and gets as far as its reads:
\* the head file, the head commit and the trees along the key.  The objects
\* it goes on to write, and what it returns, follow from what it has read
\* (stored objects never change).
RaceRead(p, key, value) ==
  /\ racers[p].pc = "idle"
  /\ LET Planned(r) ==
           racers' = [racers EXCEPT ![p] =
                        [NoRacer EXCEPT !.pc = "read", !.key = key, !.value = value,
                                        !.before = head, !.todo = r.log,
                                        !.id = r.id, !.err = r.err]]
     IN Planned(SugarSet(obj, head, key, value, ZeroCommit))
  /\ UNCHANGED << obj, head, tmp, last, count, iter, addTree, proc, codec >>

\* Client p writes its objects: the blob, the trees, the commit.
RaceWrite(p) ==
  /\ racers[p].pc = "read"
  /\ obj' = WriteAll(obj, racers[p].todo)
  /\ racers' = [racers EXCEPT ![p].pc = "written", ![p].todo = << >>]
  /\ UNCHANGED << head, tmp, last, count, iter, addTree, proc, codec >>

\* A WriteHead that gives way when the head file is no longer the one read.
RaceWriteHeadIfUnchanged(p) ==
  /\ racers[p].pc = "written"
  /\ racers[p].id # NilID
  /\ head' = IF head = racers[p].before THEN RepoWriteHead(racers[p].id) ELSE head
  /\ racers' = [racers EXCEPT
                  ![p].pc = "done",
                  ![p].wrote = 1 + Cardinality({ q \in Clients : racers[q].wrote > 0 })]
  /\ UNCHANGED << obj, tmp, last, count, iter, addTree, proc, codec >>

\* Client p calls WriteHead with the ID of its commit, and returns the ID.
RaceWriteHead(p) ==
  /\ racers[p].pc = "written"
  /\ racers[p].id # NilID
  /\ head' = RepoWriteHead(racers[p].id)
  /\ racers' = [racers EXCEPT
                  ![p].pc = "done",
                  ![p].wrote = 1 + Cardinality({ q \in Clients : racers[q].wrote > 0 })]
  /\ UNCHANGED << obj, tmp, last, count, iter, addTree, proc, codec >>

\* Client p returns without a commit: the no-op result, or an error.
RaceReturn(p) ==
  /\ racers[p].pc = "written"
  /\ racers[p].id = NilID
  /\ racers' = [racers EXCEPT ![p].pc = "done"]
  /\ UNCHANGED << obj, head, tmp, last, count, iter, addTree, proc, codec >>

NextRace ==
  \/ \E key \in RaceKeys, value \in Values :
       AllIdle /\ count.sets < MaxBaseSets /\ SetCall(key, value)
  \/ \E p \in Clients, key \in RaceKeys, value \in Values : RaceRead(p, key, value)
  \/ \E p \in Clients : RaceWrite(p)
  \/ \E p \in Clients : RaceWriteHead(p)
  \/ \E p \in Clients : RaceReturn(p)

SpecRace == Init /\ [][NextRace]_vars

\* Clients p and q have both returned a commit ID and no error from Sets of
\* different keys, both had read the head file before either wrote it, and
\* q wrote it last.
Raced(p, q) ==
  /\ p # q /\ racers[p].pc = "done" /\ racers[q].pc = "done"
  /\ racers[p].key # racers[q].key
  /\ racers[p].before = racers[q].before
  /\ racers[p].id # NilID /\ racers[q].id # NilID
  /\ racers[p].err = "" /\ racers[q].err = ""
  /\ racers[p].wrote < racers[q].wrote

\* C15: whenever two Sets of different keys have run at the same time, have
\* both read the head file before either wrote it and have both returned a
\* commit ID without error, the head file holds the commit of the one that
\* wrote it last: Get reads that client's value at its key, the other
\* client's value cannot be read at its key, and its commit, still stored,
\* is not a parent of the head commit.
C15_LastHeadWriterWins ==
  \A p, q \in Clients :
    Raced(p, q)
      => /\ head = File(IDString(racers[q].id))
         /\ GetValue(obj, head, racers[q].key) = [err |-> "", data |-> racers[q].value]
         /\ GetValue(obj, head, racers[p].key) # [err |-> "", data |-> racers[p].value]
         /\ RepoCommit(obj, racers[p].id).err = ""
         /\ \A c \in { RepoCommit(obj, racers[q].id) } :
              c.err = "" /\ \A i \in 1..Len(c.commit.Parents) :
                              c.commit.Parents[i] # racers[p].id

\* After a Set of b, client 1 has set a and client 2 has set a/b at the
\* same time; client 2 wrote the head file last, and Get(a) finds nothing
\* of what client 1 stored.
C15_Witness ==
  /\ Raced(1, 2) /\ racers[1].before # NoFile
  /\ racers[1].key = << NameA >> /\ racers[2].key = << NameA, NameB >>
  /\ GetValue(obj, head, << NameB >>).err = ""
  /\ GetValue(obj, head, << NameA, NameB >>).err = ""
  /\ GetValue(obj, head, << NameA >>).err # ""

(***************************************************************************)
(* The decoders and ParseID on byte streams of any make                    *)
(***************************************************************************)

\* The beginnings of a byte stream, the whole stream left out.
ProperPrefixes(data) == { SubSeq(data, 1, n) : n \in 0..(Len(data) - 1) }

\* The ID of the one byte 0a.
ShortID == << << "0", "a" >> >>

\* A tree and a commit whose encodings are cut short at every byte.
SampleTree == << Entry(KindBlob, NameA, ShortID), Entry(KindTree, NameSpace, NilID) >>

SampleCommit == Commit(ShortID, << ShortID >>, Time(5, 0, 1), Message(<< "h", "i" >>))

\* Tree streams with one entry whose kind token is not blob or tree.
BadKindStreams ==
  { treePrefix \o EncodeEntry(Entry(kind, NameA, ShortID)) :
      kind \in { KindCommit, << "x" >>, << >> } }

\* The byte streams handed to DecodeTree: an encoding and its beginnings;
\* two entries in descending order of Name; a kind token of another make;
\* an ID in upper case; a length with a sign, and with a leading zero.
TreeStreams ==
  { EncodeTree(SampleTree) } \cup ProperPrefixes(EncodeTree(SampleTree))
    \cup BadKindStreams
    \cup { EncodeTreeUnsorted(<< Entry(KindBlob, NameB, ShortID),
                                 Entry(KindBlob, NameA, ShortID) >>),
           treePrefix \o KindBlob \o << " ", "0", "A", " ", "1", " ", "a", "\n" >>,
           treePrefix \o KindBlob \o << " ", "0", "a", " ", "+", "1", " ", "a", "\n" >>,
           treePrefix \o KindBlob \o << " ", "0", "a", " ", "0", "1", " ", "a", "\n" >> }

\* The byte streams handed to DecodeCommit: an encoding and its beginnings;
\* a time without an offset, with an offset without a sign, and with a third
\* number; a parent before the tree; two tree lines; an ID in upper case.
CommitStreams ==
  { EncodeCommit(SampleCommit), EncodeCommit(ZeroCommit) }
    \cup ProperPrefixes(EncodeCommit(SampleCommit))
    \cup { commitPrefix \o body :
             body \in
               { << "t", "r", "e", "e", " ", "0", "a", "\n",
                    "t", "i", "m", "e", " ", "5", "\n", "\n" >>,
                 << "t", "r", "e", "e", " ", "0", "a", "\n",
                    "t", "i", "m", "e", " ", "5", " ", "1", "\n", "\n" >>,
                 << "t", "r", "e", "e", " ", "0", "a", "\n",
                    "t", "i", "m", "e", " ", "5", " ", "+", "1", " ", "7", "\n", "\n",
                    "h", "i" >>,
                 << "p", "a", "r", "e", "n", "t", " ", "0", "a", "\n",
                    "t", "r", "e", "e", " ", "0", "a", "\n",
                    "t", "i", "m", "e", " ", "5", " ", "+", "1", "\n", "\n" >>,
                 << "t", "r", "e", "e", " ", "\n", "t", "r", "e", "e", " ", "0", "a", "\n",
                    "t", "i", "m", "e", " ", "5", " ", "+", "1", "\n", "\n" >>,
                 << "t", "r", "e", "e", " ", "0", "A", "\n",
                    "t", "i", "m", "e", " ", "5", " ", "+", "1", "\n", "\n" >> } }

\* The length of the strings handed to ParseID.
MaxIDLen == 3

\* The strings of length n at most over hex digits in both cases and two
\* characters that are none.
RECURSIVE StringsUpTo(_)
StringsUpTo(n) ==
  IF n = 0 THEN { << >> }
  ELSE LET Longer(shorter) ==
             shorter \cup { Append(sc[1], sc[2]) :
                              sc \in shorter \X { "0", "a", "F", "g", " " } }
       IN Longer(StringsUpTo(n - 1))

\* The IDs whose String() is parsed back: nil, one byte, two bytes, a digest.
SampleIDs == { NilID, ShortID, << << "f", "0" >>, << "0", "a" >> >>, BlobID(<< "x" >>) }

IDStrings == StringsUpTo(MaxIDLen) \cup { IDString(id) : id \in SampleIDs }

\* A client calls DecodeTree on a reader of the bytes data.  A run makes
\* one call.
DecodeTreeBytes(data) ==
  /\ codec.op = "none" /\ last.op = "none"
  /\ LET Returned(r) ==
           codec' = [NoCodec EXCEPT !.op = "DecodeTreeBytes", !.data = data,
                                    !.err = r.err, !.outTree = r.tree]
     IN Returned(DecodeTree(Reader(data, "eof")))
  /\ UNCHANGED << obj, head, tmp, last, count, iter, addTree, proc, racers >>

\* A client calls DecodeCommit on a reader of the bytes data.
DecodeCommitBytes(data) ==
  /\ codec.op = "none" /\ last.op = "none"
  /\ LET Returned(r) ==
           codec' = [NoCodec EXCEPT !.op = "DecodeCommitBytes", !.data = data,
                                    !.err = r.err, !.outCommit = r.commit]
     IN Returned(DecodeCommit(Reader(data, "eof")))
  /\ UNCHANGED << obj, head, tmp, last, count, iter, addTree, proc, racers >>

\* A client calls ParseID(s).
ParseIDCall(s) ==
  /\ codec.op = "none" /\ last.op = "none"
  /\ LET Returned(r) ==
           last' = [NoCall EXCEPT !.op = "ParseID", !.data = s, !.err = r.err,
                                  !.id = r.id]
     IN Returned(ParseID(s))
  /\ UNCHANGED << obj, head, tmp, count, iter, addTree, proc, codec, racers >>

NextDecode ==
  \/ \E data \in TreeStreams : DecodeTreeBytes(data)
  \/ \E data \in CommitStreams : DecodeCommitBytes(data)
  \/ \E s \in IDStrings : ParseIDCall(s)

SpecDecode == Init /\ [][NextDecode]_vars

\* C21: for every byte stream that DecodeTree or DecodeCommit accepts,
\* encoding the decoded object gives the same bytes again.
C21_DecodedBytesAreCanonical ==
  /\ (codec.op = "DecodeTreeBytes" /\ codec.err = "")
       => EncodeTree(codec.outTree) = codec.data
  /\ (codec.op = "DecodeCommitBytes" /\ codec.err = "")
       => EncodeCommit(codec.outCommit) = codec.data


\* C25: DecodeTree fails with an error when the kind token of an entry is
\* anything other than "blob" or "tree".
C25_BadKindIsRefused ==
  (codec.op = "DecodeTreeBytes" /\ codec.data \in BadKindStreams)
    => codec.err # ""

\* The beginnings of the encoding of SampleTree that end inside an entry:
\* all that go beyond the prefix and do not end with the first entry.
CutEntryStreams ==
  { data \in ProperPrefixes(EncodeTree(SampleTree)) :
      /\ Len(data) > Len(treePrefix)
      /\ data # EncodeTree(<< SampleTree[1] >>) }

\* C26: DecodeTree fails with an error whenever the stream ends inside an
\* entry; it returns no tree with a shortened name and does not abort.
C26_CutEntryIsAnError ==
  (codec.op = "DecodeTreeBytes" /\ codec.data \in CutEntryStreams)
    => codec.err \notin { "", "panic" }


\* The hex digits, in both cases.
HexDigits ==
  { "0", "1", "2", "3", "4", "5", "6", "7", "8", "9",
    "a", "b", "c", "d", "e", "f", "A", "B", "C", "D", "E", "F" }

\* The digits of the digest among SampleIDs (digest digits are hex digits).
DigestDigits ==
  { IDString(BlobID(<< "x" >>))[i] : i \in 1..Len(IDString(BlobID(<< "x" >>))) }

\* C27: ParseID refuses every string of odd length or with a character that
\* is no hex digit, accepts every other string whatever its length, gives
\* the nil ID for the empty string, and gives id back for id.String().
C27_ParseIDAcceptsEvenHex ==
  last.op = "ParseID" =>
    /\ (last.err # "") <=>
         \/ Len(last.data) % 2 = 1
         \/ \E i \in 1..Len(last.data) : last.data[i] \notin HexDigits \cup DigestDigits
    /\ last.err = "" => Len(last.id) * 2 = Len(last.data)
    /\ last.data = << >> => (last.err = "" /\ last.id = NilID)
    /\ \A id \in SampleIDs : last.data = IDString(id) => (last.err = "" /\ last.id = id)

\* ParseID has accepted a string with a digit in upper case.
C27_Witness ==
  /\ last.op = "ParseID"
  /\ last.data = << "F", "0" >>
  /\ last.err = ""
  /\ last.id = << << "f", "0" >> >>


(***************************************************************************)
(* Keys over trees written with WriteTree: entries of any kind             *)
(***************************************************************************)

\* The kinds that are neither blob nor tree.
OddKinds == { KindCommit, << "x" >> }

\* A tree whose one entry is of an odd kind.
OddLeaf(kind) == << Entry(kind, NameA, ShortID) >>

\* The trees written: without an odd entry; with an odd entry first, after
\* a blob, and in a subtree; the trees the tree entries point to.
OddTrees ==
  { << >>,
    << Entry(KindBlob, NameA, BlobID(<< "x" >>)),
       Entry(KindTree, NameB, IDOfBytes(EncodeTree(<< >>))) >> }
    \cup { OddLeaf(kind) : kind \in OddKinds }
    \cup { << Entry(kind, NameA, ShortID),
              Entry(KindTree, NameB, IDOfBytes(EncodeTree(<< >>))) >> : kind \in OddKinds }
    \cup { << Entry(KindBlob, NameA, BlobID(<< "x" >>)),
              Entry(kind, NameSpace, ShortID),
              Entry(KindTree, NameB, IDOfBytes(EncodeTree(<< >>))) >> : kind \in OddKinds }
    \cup { << Entry(KindTree, NameA, IDOfBytes(EncodeTree(OddLeaf(kind)))),
              Entry(KindBlob, NameB, BlobID(<< "x" >>)) >> : kind \in OddKinds }

\* A client calls Keys(treeID, prefix) with the ID of a stored object.
KeysOfCall(treeID, prefix) ==
  /\ iter.state = "none"
  /\ LET Returned(r) ==
           iter' = [state |-> IF r.err = "" THEN "open" ELSE "failed",
                    key |-> r.key, stack |-> r.stack, yielded |-> << >>,
                    root |-> treeID, prefix |-> prefix, err |-> r.err]
     IN Returned(SugarKeys(obj, treeID, prefix))
  /\ last' = [NoCall EXCEPT !.op = "Keys", !.key = prefix, !.id = treeID]
  /\ UNCHANGED << obj, head, tmp, count, addTree, proc, codec, racers >>

NextOdd ==
  \/ \E t \in OddTrees : iter.state = "none" /\ WriteTreeCall(t)
  \/ \E treeID \in StoredIDs : \E prefix \in { << NameA >>, << NameB >> } :
       KeysOfCall(treeID, prefix)
  \/ NextCall

SpecOdd == Init /\ [][NextOdd]_vars

\* The entry Next comes to first: the first entry of the topmost tree of
\* the stack that has one, and from a tree entry the first entry below it.
\* [some, entry]; none when the stack runs out or a tree cannot be read.
RECURSIVE EntryReached(_, _)
EntryReached(o, stack) ==
  LET none == [some |-> FALSE, entry |-> Entry(<< >>, << >>, NilID)]
      Loaded(t) == IF t.err # "" THEN none ELSE EntryReached(o, Append(stack, t.tree))
      Rest(rest) ==
        IF rest = << >> THEN none
        ELSE EntryReached(o, [rest EXCEPT ![Len(rest)] = Tail(@)])
      Top(tree) ==
        IF tree = << >> THEN Rest(DropLast(stack))
        ELSE IF tree[1].Kind = KindTree THEN Loaded(RepoTree(o, tree[1].ID))
        ELSE [some |-> TRUE, entry |-> tree[1]]
  IN IF stack = << >> THEN none ELSE Top(stack[Len(stack)])

\* C24: when the iterator comes to an entry whose Kind is neither blob nor
\* tree, Next returns a corrupt-tree error: no key, and not io.EOF.
C24_OddKindIsCorruptTree ==
  [][ \A e \in { EntryReached(obj, iter.stack) } :
        (iter.state = "open" /\ last'.op = "Next" /\ e.some
           /\ e.entry.Kind \notin { KindBlob, KindTree })
          => /\ iter'.state = "failed"
             /\ iter'.err = "corrupt tree"
             /\ iter'.yielded = iter.yielded ]_vars

\* An iterator has returned a key and then, having come to an odd entry,
\* the corrupt-tree error.
C24_Witness ==
  /\ iter.state = "failed"
  /\ iter.err = "corrupt tree"
  /\ Len(iter.yielded) = 1


(***************************************************************************)
(* The trees Set stores, and its corrupt-tree check: claims under Spec     *)
(***************************************************************************)

\* The trees reachable from the tree treeID, that tree included.
RECURSIVE TreesFrom(_, _)
TreesFrom(o, treeID) ==
  LET Of(t) ==
        { t } \cup UNION { IF t[i].Kind = KindTree THEN TreesFrom(o, t[i].ID) ELSE { } :
                           i \in 1..Len(t) }
  IN Of(RepoTree(o, treeID).tree)

\* C29: after any sequence of Set calls every tree reachable from the head
\* is stored with its names in strictly ascending byte order, none twice,
\* and Tree.Get finds each of its entries.
C29_StoredTreesAreSorted ==
  head.exists =>
    \A t \in TreesFrom(obj, HeadTree(obj, head)) :
      /\ Ascending(t)
      /\ \A i \in 1..Len(t) : TreeGet(t, t[i].Name) = [found |-> TRUE, entry |-> t[i]]

\* A Set of the key a has added its entry to a root tree that held the
\* entry b alone: Tree.Add appended it behind b.
C29_Witness ==
  /\ last.op = "Set" /\ last.id # NilID /\ last.key = << NameA >>
  /\ last.before.exists
  /\ Len(RepoTree(obj, HeadTree(obj, last.before)).tree) = 1
  /\ RepoTree(obj, HeadTree(obj, last.before)).tree[1].Name = NameB
  /\ Len(RepoTree(obj, HeadTree(obj, head)).tree) = 2


\* C30: from the empty repository, by Set calls alone, Set never returns the
\* "corrupt tree" error: in a Set that changed the leaf and came to its
\* commit, the entry put in at each level above the leaf differs from the
\* entry that was there.
C30_SetIsNeverCorrupt ==
  [][IsSetStep =>
       /\ last'.err # "corrupt tree"
       /\ last'.id # NilID =>
            \A root \in { HeadTree(obj, head) } : \A root2 \in { HeadTree(obj', head') } :
              \A n \in 1..(Len(last'.key) - 1) :
                \A was \in { EntryWalk(obj, root, Segments(last'.key, n), 1) } :
                  \A now \in { EntryWalk(obj', root2, Segments(last'.key, n), 1) } :
                    /\ now.found /\ now.entry.Kind = KindTree
                    /\ was.found => was.entry # now.entry]_vars

\* The third Set of a run changed the value at a key of three segments that
\* was mapped before: an entry was there at every level.
C30_Witness ==
  /\ last.op = "Set" /\ last.id # NilID /\ count.sets = 3
  /\ Len(last.key) = 3
  /\ last.before.exists
  /\ GetValue(obj, last.before, last.key).err = ""
  /\ GetValue(obj, head, last.key) = [err |-> "", data |-> last.value]


(***************************************************************************)
(* Two clients in Set at the same time, one written object at a time       *)
(***************************************************************************)

\* A Set that writes its objects from the last to the first.
RaceWriteOneLastFirst(p) ==
  /\ racers[p].pc = "read"
  /\ obj' = IF racers[p].todo = << >> THEN obj
            ELSE RepoWrite(obj, racers[p].todo[Len(racers[p].todo)]).obj
  /\ racers' = [racers EXCEPT
                  ![p].todo = IF @ = << >> THEN @ ELSE SubSeq(@, 1, Len(@) - 1),
                  ![p].pc = IF Len(racers[p].todo) <= 1 THEN "written" ELSE "read"]
  /\ UNCHANGED << head, tmp, last, count, iter, addTree, proc, codec >>

\* Client p makes the next of its writes: the blob, then the trees from the
\* leaf to the root, then the commit.  DirRepo.write puts the whole object
\* at its path with one rename.
RaceWriteOne(p) ==
  /\ racers[p].pc = "read"
  /\ obj' = IF racers[p].todo = << >> THEN obj
            ELSE RepoWrite(obj, racers[p].todo[1]).obj
  /\ racers' = [racers EXCEPT
                  ![p].todo = IF @ = << >> THEN @ ELSE Tail(@),
                  ![p].pc = IF Len(racers[p].todo) <= 1 THEN "written" ELSE "read"]
  /\ UNCHANGED << head, tmp, last, count, iter, addTree, proc, codec >>

NextSteps ==
  \/ \E key \in RaceKeys, value \in Values :
       AllIdle /\ count.sets < MaxBaseSets /\ SetCall(key, value)
  \/ \E p \in Clients, key \in RaceKeys, value \in Values : RaceRead(p, key, value)
  \/ \E p \in Clients : RaceWriteOne(p)
  \/ \E p \in Clients : RaceWriteHead(p)
  \/ \E p \in Clients : RaceReturn(p)

SpecSteps == Init /\ [][NextSteps]_vars

\* The object of the ID is stored.
Present(o, id) == HasPath(id) /\ ObjPath(id) \in DOMAIN o

\* The tree treeID, and every tree and blob reachable from it, can be read.
RECURSIVE TreeComplete(_, _)
TreeComplete(o, treeID) ==
  LET Of(t) ==
        /\ t.err = ""
        /\ \A i \in 1..Len(t.tree) :
             IF t.tree[i].Kind = KindTree THEN TreeComplete(o, t.tree[i].ID)
             ELSE RepoBlob(o, t.tree[i].ID).err = ""
  IN Present(o, treeID) /\ Of(RepoTree(o, treeID))

Retrievable(key) == GetValue(obj, head, key).err = ""

\* The tree that holds what Get reads below the key prefix and nothing
\* else: for each name in ascending order, a blob entry when Get reads a
\* value at prefix ++ name, a tree entry when it reads one further below.
RECURSIVE MappingTree(_)
MappingTree(prefix) ==
  LET Of(name) ==
        IF Retrievable(Append(prefix, name))
          THEN << Entry(KindBlob, name, BlobID(GetValue(obj, head, Append(prefix, name)).data)) >>
        ELSE IF \E key \in Keys : /\ IsPrefix(Append(prefix, name), key)
                                  /\ key # Append(prefix, name)
                                  /\ Retrievable(key)
          THEN << Entry(KindTree, name,
                        IDOfBytes(EncodeTree(MappingTree(Append(prefix, name))))) >>
        ELSE << >>
  IN Of(NameA) \o Of(NameB)

\* C31: the root tree ID depends on the mapping alone: in every state reached
\* by Set calls the head commit's tree is the tree of the keys and values
\* Get reads, so two runs that end with the same mapping end with the same
\* root tree ID, whatever the order of their Sets.
C31_RootIsFunctionOfMapping ==
  head.exists => HeadTree(obj, head) = IDOfBytes(EncodeTree(MappingTree(<< >>)))

\* Three Sets have left a value at b and values at a/a and a/b.
C31_Witness ==
  /\ count.commits = 3
  /\ Retrievable(<< NameB >>)
  /\ Retrievable(<< NameA, NameA >>)
  /\ Retrievable(<< NameA, NameB >>)


\* C32: a Set of a key that leads to a tree entry succeeds and puts the blob
\* in the place of the whole subtree: afterwards Get reads the value at the
\* key, and no key that has it as a proper prefix can be read.
C32_SetReplacesTreeByBlob ==
  [][\A e \in { EntryWalk(obj, HeadTree(obj, head), last'.key, 1) } :
       (IsSetStep /\ head.exists /\ e.found /\ e.entry.Kind = KindTree)
         => /\ last'.err = "" /\ last'.id # NilID
            /\ GetValue(obj', head', last'.key) = [err |-> "", data |-> last'.value]
            /\ \A key \in Keys :
                 (IsPrefix(last'.key, key) /\ key # last'.key)
                   => GetValue(obj', head', key).err # ""]_vars

\* The Set of the key a has put a blob where a tree held values at a/a and
\* at a/b/a.
C32_Witness ==
  /\ last.op = "Set" /\ last.id # NilID /\ last.key = << NameA >>
  /\ count.sets = 3
  /\ GetValue(obj, last.before, << NameA, NameA >>).err = ""
  /\ GetValue(obj, last.before, << NameA, NameB, NameA >>).err = ""
  /\ GetValue(obj, head, << NameA >>) = [err |-> "", data |-> last.value]


(***************************************************************************)
(* Keys: the iteration comes to its end                                    *)
(***************************************************************************)

\* The caller of Keys goes on calling Next while the iterator returns keys:
\* weak fairness of NextCall, WF_vars(NextCall), with its enabling condition
\* written out. NextCall is enabled exactly where the iterator is open, and a
\* Next call on an open iterator changes it (a key more, io.EOF or an error).
SpecKeysLive ==
  /\ Init /\ [][NextKeys]_vars
  /\ ([]<>(iter.state # "open") \/ []<><<NextCall>>_vars)

\* C33: over the trees Set has stored (a finite graph without cycles), an
\* iterator Keys has returned comes to io.EOF after finitely many Next
\* calls; once it has, a further Next call returns io.EOF again and leaves
\* the iterator as it is.
C33_IterationEnds ==
  /\ (iter.state = "open") ~> (iter.state = "eof")
  /\ [](iter.state = "eof" =>
          \A r \in { IterNext(obj, iter.key, iter.stack) } :
            r.err = "eof" /\ r.key = iter.key /\ r.stack = iter.stack)

\* An iterator has returned three keys and then io.EOF.
C33_Witness ==
  /\ iter.state = "eof" /\ iter.err = "eof"
  /\ Len(iter.yielded) = 3
  /\ last.op = "Next"


(***************************************************************************)
(* Lookups by the nil ID                                                   *)
(***************************************************************************)

\* The number of Sets in a run with lookups by the nil ID.
MaxNilSets == 1

\* A client calls WriteHead(id): ioutil.WriteFile of id.String(), which is
\* the empty string for the nil ID.
WriteHeadCall(id) ==
  /\ head' = RepoWriteHead(id)
  /\ head' # head
  /\ last' = [NoCall EXCEPT !.op = "WriteHead", !.id = id]
  /\ UNCHANGED << obj, tmp, count, iter, addTree, proc, codec, racers >>

NextNil ==
  \/ \E value \in Values : WriteBlobCall(value)
  \/ \E c \in StoreCommits : WriteCommitCall(c)
  \/ \E id \in StoredIDs \cup { NilID } : WriteHeadCall(id)
  \/ \E id \in StoredIDs \cup { NilID } : BlobCall(id)
  \/ \E id \in StoredIDs \cup { NilID } : TreeCall(id)
  \/ \E id \in StoredIDs \cup { NilID } : CommitCall(id)
  \/ \E key \in Keys : GetCall(key)
  \/ \E key \in Keys, value \in Values :
       count.sets < MaxNilSets /\ SetCall(key, value)

SpecNil == Init /\ [][NextNil]_vars

\* The head file h is empty, so that Head returns the nil ID and no error,
\* or it names a stored commit that carries the nil ID as its tree.
NilRepository(h) ==
  /\ RepoHead(h).err = ""
  /\ \/ RepoHead(h).id = NilID
     \/ \A c \in { RepoCommit(obj, RepoHead(h).id) } :
          c.err = "" /\ c.commit.Tree = NilID

\* C34: a Blob, Tree or Commit lookup by the nil ID returns an error, and so
\* does a Get or a Set on a repository whose head file is empty or whose
\* head commit carries the nil ID as its tree; none of them aborts the
\* program.
C34_NilLookupReturnsError ==
  /\ last.op \in {"Blob", "Tree", "Commit"} /\ last.id = NilID
       => IsError(last.err)
  /\ last.op = "Get" /\ NilRepository(head) => IsError(last.err)
  /\ last.op = "Set" /\ NilRepository(last.before) => IsError(last.err)

====
